---------------------------- MODULE Spec2Model ----------------------------
(***************************************************************************)
(* A model of the xor engine of CRoaring's container layer                 *)
(* (src/src/containers/mixed_xor.c) and of the part of the C++ wrapper     *)
(* (src/cpp/roaring.hh) that the fuzz test exercises.                      *)
(*                                                                         *)
(* A container holds offsets of one 65536-wide chunk.  The offsets of a    *)
(* chunk are grouped in consecutive blocks, cut at the thresholds the code *)
(* compares against (32, 1024, 4096) so that every branch of the code is   *)
(* taken with the program's own constants.  The inputs are the containers  *)
(* whose offset set is a union of blocks; a block stands for all of its    *)
(* offsets, so cardinalities, run boundaries and run counts are those of   *)
(* the real containers.                                                    *)
(***************************************************************************)
EXTENDS Integers, Sequences, FiniteSets, TLC

(***************************************************************************)
(* Program constants.                                                      *)
(***************************************************************************)
DEFAULT_MAX_SIZE == 4096
ARRAY_LAZY_LOWERBOUND == 1024
arbitrary_threshold == 32
BITSET_UNKNOWN_CARDINALITY == -1
BITSET_CONTAINER_TYPE == 1
ARRAY_CONTAINER_TYPE == 2
RUN_CONTAINER_TYPE == 3

TypeTags == {BITSET_CONTAINER_TYPE, ARRAY_CONTAINER_TYPE, RUN_CONTAINER_TYPE}

\* number of offsets of a chunk: offsets are uint16_t
ChunkSize == 2^16

(***************************************************************************)
(* Bounds of the model.                                                    *)
(***************************************************************************)
\* how many offsets at the start of the chunk are blocks of their own
NumSingles == 1

(***************************************************************************)
(* The block family.  Block b holds the offsets Cuts[b] .. Cuts[b+1]-1.    *)
(***************************************************************************)
Cuts ==
    [i \in 1..(NumSingles + 1) |-> i - 1] \o
    << arbitrary_threshold, ARRAY_LAZY_LOWERBOUND, DEFAULT_MAX_SIZE,
       DEFAULT_MAX_SIZE + 1, ChunkSize >>

NumBlocks == Len(Cuts) - 1
Blocks == 1..NumBlocks
BlockLo(b) == Cuts[b]
BlockHi(b) == Cuts[b + 1] - 1
Weight(b) == Cuts[b + 1] - Cuts[b]

\* the number of offsets in the blocks of S
RECURSIVE SumWFrom(_, _)
SumWFrom(S, b) ==
    IF b > NumBlocks THEN 0
    ELSE (IF b \in S THEN Weight(b) ELSE 0) + SumWFrom(S, b + 1)

SumW(S) == SumWFrom(S, 1)

SymDiff(A, B) == (A \ B) \cup (B \ A)

\* the blocks of S in ascending order
SortedSeq(S) == SelectSeq([i \in 1..NumBlocks |-> i], LAMBDA b : b \in S)

SeqRange(s) == {s[i] : i \in 1..Len(s)}


(***************************************************************************)
(* The three container structs.  `kind` is what the object in memory is    *)
(* (the struct it was allocated as); the type tag a caller keeps for it is *)
(* a separate value.  An array's element list holds blocks, each standing  *)
(* for its offsets; a bitset's word buffer (the field `array` of           *)
(* bitset_container_t in this version of the source) is the set of blocks  *)
(* whose bits are set.                                                     *)
(***************************************************************************)
NULL == [kind |-> "null"]

rle16(value, length) == [value |-> value, length |-> length]

\* the runs of the offset set S, coalesced: the only valid run list for S
RECURSIVE RunsOfFrom(_, _, _)
RunsOfFrom(S, b, acc) ==
    IF b > NumBlocks THEN acc
    ELSE IF b \notin S THEN RunsOfFrom(S, b + 1, acc)
    ELSE IF Len(acc) > 0
             /\ acc[Len(acc)].value + acc[Len(acc)].length + 1 = BlockLo(b)
         THEN RunsOfFrom(S, b + 1,
                  [acc EXCEPT ![Len(acc)].length = BlockHi(b) - acc[Len(acc)].value])
         ELSE RunsOfFrom(S, b + 1,
                  Append(acc, rle16(BlockLo(b), BlockHi(b) - BlockLo(b))))

ArrayC(S) == [kind |-> "array", cardinality |-> SumW(S), array |-> SortedSeq(S)]
BitsetC(S) == [kind |-> "bitset", cardinality |-> SumW(S), words |-> S]
RunC(S) ==
    LET rs == RunsOfFrom(S, 1, <<>>)
    IN  [kind |-> "run", n_runs |-> Len(rs), runs |-> rs]

\* the valid containers of each type over the block family
ArraySets == {S \in SUBSET Blocks : SumW(S) <= DEFAULT_MAX_SIZE}
Arrays == {ArrayC(S) : S \in ArraySets}
Bitsets == {BitsetC(S) : S \in SUBSET Blocks}
Runs == {RunC(S) : S \in SUBSET Blocks}

(***************************************************************************)
(* What a container holds, read off its representation.  RunCovered is the *)
(* set of blocks lying inside a run; RunAligned says that no run cuts a    *)
(* block, so that RunCovered loses nothing.                                *)
(***************************************************************************)
RunCovered(rc) ==
    {b \in Blocks : \E i \in 1..rc.n_runs :
        /\ rc.runs[i].value <= BlockLo(b)
        /\ BlockHi(b) <= rc.runs[i].value + rc.runs[i].length}

RECURSIVE RunCardFrom(_, _)
RunCardFrom(rc, i) ==
    IF i > rc.n_runs THEN 0 ELSE rc.runs[i].length + 1 + RunCardFrom(rc, i + 1)

RunAligned(rc) == RunCardFrom(rc, 1) = SumW(RunCovered(rc))

Offsets(c) ==
    CASE c.kind = "array" -> SeqRange(c.array)
      [] c.kind = "bitset" -> c.words
      [] c.kind = "run" -> RunCovered(c)
      [] OTHER -> {}

\* the type tag that names the representation of c
TypeOf(c) ==
    CASE c.kind = "array" -> ARRAY_CONTAINER_TYPE
      [] c.kind = "bitset" -> BITSET_CONTAINER_TYPE
      [] c.kind = "run" -> RUN_CONTAINER_TYPE
      [] OTHER -> 0

\* the number of offsets c really holds
TrueCard(c) == IF c.kind = "run" THEN RunCardFrom(c, 1) ELSE SumW(Offsets(c))

\* an array is strictly increasing; a run list is ordered and never touching
RunInvariant(rc) ==
    /\ Len(rc.runs) = rc.n_runs
    /\ \A i \in 1..rc.n_runs :
          /\ rc.runs[i].value >= 0 /\ rc.runs[i].length >= 0
          /\ rc.runs[i].value + rc.runs[i].length < ChunkSize
    /\ \A i \in 1..(rc.n_runs - 1) :
          rc.runs[i].value + rc.runs[i].length + 1 < rc.runs[i + 1].value

WellFormed(c) ==
    CASE c.kind = "array" ->
            /\ c.cardinality = SumW(SeqRange(c.array))
            /\ \A i \in 1..(Len(c.array) - 1) : c.array[i] < c.array[i + 1]
      [] c.kind = "bitset" -> TRUE
      [] c.kind = "run" -> RunInvariant(c) /\ RunAligned(c)
      [] OTHER -> FALSE

(***************************************************************************)
(* Library routines mixed_xor.c calls (bitset_util.h, array.h, bitset.h,   *)
(* run.h, convert.h).  A routine that writes through a pointer is an       *)
(* operator that returns the object written.                               *)
(***************************************************************************)
array_container_create_given_capacity(capacity) ==
    [kind |-> "array", cardinality |-> 0, array |-> <<>>]

bitset_container_create ==
    [kind |-> "bitset", cardinality |-> 0, words |-> {}]

run_container_create ==
    [kind |-> "run", n_runs |-> 0, runs |-> <<>>]

\* copies the words and the cached cardinality of source into dest
bitset_container_copy(source, dest) ==
    [dest EXCEPT !.cardinality = source.cardinality, !.words = source.words]

\* the blocks of list that lie within its first `length` offsets
RECURSIVE ListPrefix(_, _)
ListPrefix(list, length) ==
    IF list = <<>> \/ Weight(Head(list)) > length THEN {}
    ELSE {Head(list)} \cup ListPrefix(Tail(list), length - Weight(Head(list)))

\* toggles the bits of the first `length` entries of list
bitset_flip_list(words, list, length) ==
    SymDiff(words, ListPrefix(list, length))

(* Toggles the same bits and returns the cardinality: card plus one for    *)
(* each bit set and minus one for each bit cleared.  The C routine counts  *)
(* in uint64_t and the caller narrows to 32 bits, which agrees with this   *)
(* sum in the integers for every value a container can reach.              *)
bitset_flip_list_withcard(words, card, list, length) ==
    LET flipped == ListPrefix(list, length)
    IN  [words |-> SymDiff(words, flipped),
         card |-> card + SumW(flipped \ words) - SumW(flipped \cap words)]

\* toggles the bits start .. end-1 (start, end are uint32_t)
bitset_flip_range(words, start, end) ==
    IF start >= end THEN words
    ELSE SymDiff(words,
                 {b \in Blocks : start <= BlockLo(b) /\ BlockHi(b) < end})

bitset_container_compute_cardinality(bc) == SumW(bc.words)

run_container_cardinality(rc) == RunCardFrom(rc, 1)

\* allocates for bits.cardinality entries and extracts the set bits
array_container_from_bitset(bits) ==
    [kind |-> "array", cardinality |-> bits.cardinality,
     array |-> SortedSeq(bits.words)]

bitset_container_from_array(ac) ==
    [kind |-> "bitset", cardinality |-> SumW(SeqRange(ac.array)),
     words |-> SeqRange(ac.array)]

array_container_from_run(rc) ==
    [kind |-> "array", cardinality |-> run_container_cardinality(rc),
     array |-> SortedSeq(RunCovered(rc))]

bitset_container_from_run(rc) ==
    [kind |-> "bitset", cardinality |-> run_container_cardinality(rc),
     words |-> RunCovered(rc)]

\* two-pointer merge of two sorted arrays keeping what is in exactly one
RECURSIVE xor_uint16(_, _)
xor_uint16(a1, a2) ==
    IF a1 = <<>> THEN a2
    ELSE IF a2 = <<>> THEN a1
    ELSE IF Head(a1) = Head(a2) THEN xor_uint16(Tail(a1), Tail(a2))
    ELSE IF Head(a1) < Head(a2) THEN <<Head(a1)>> \o xor_uint16(Tail(a1), a2)
    ELSE <<Head(a2)>> \o xor_uint16(a1, Tail(a2))

array_container_xor(array_1, array_2, out) ==
    LET merged == xor_uint16(array_1.array, array_2.array)
    IN  [out EXCEPT !.array = merged, !.cardinality = SumW(SeqRange(merged))]

\* word-wise xor into dst; dst.cardinality is what the C routine returns
bitset_container_xor(src_1, src_2, dst) ==
    LET w == SymDiff(src_1.words, src_2.words)
    IN  [dst EXCEPT !.words = w, !.cardinality = SumW(w)]

(* Appends the run (start, length) to src, cancelling what it shares with  *)
(* the last run: the tail is extended, trimmed, split or removed.          *)
run_container_smart_append_exclusive(src, start, length) ==
    LET n == src.n_runs
        last_run == src.runs[n]
        old_end == last_run.value + last_run.length + 1
        new_end == start + length + 1
        SetLast(r) == [src EXCEPT !.runs[n] = r]
        Push(c, r) == [c EXCEPT !.runs = Append(c.runs, r), !.n_runs = c.n_runs + 1]
    IN  IF n = 0 \/ start > old_end THEN Push(src, rle16(start, length))
        ELSE IF old_end = start
            THEN SetLast(rle16(last_run.value, last_run.length + length + 1))
        ELSE IF start = last_run.value
            THEN IF new_end < old_end
                     THEN SetLast(rle16(new_end, old_end - new_end - 1))
                 ELSE IF new_end > old_end
                     THEN SetLast(rle16(old_end, new_end - old_end - 1))
                 ELSE [src EXCEPT !.runs = SubSeq(src.runs, 1, n - 1),
                                  !.n_runs = n - 1]
        ELSE LET cut == SetLast(rle16(last_run.value,
                                      start - last_run.value - 1))
             IN  IF new_end < old_end
                     THEN Push(cut, rle16(new_end, old_end - new_end - 1))
                 ELSE IF new_end > old_end
                     THEN Push(cut, rle16(old_end, new_end - old_end - 1))
                 ELSE cut

\* merge of the two run lists by start, each run appended exclusively
RECURSIVE run_xor_loop(_, _, _, _, _)
run_xor_loop(src_1, src_2, pos1, pos2, dst) ==
    IF pos1 < src_1.n_runs /\ pos2 < src_2.n_runs
        THEN IF src_1.runs[pos1 + 1].value <= src_2.runs[pos2 + 1].value
                 THEN run_xor_loop(src_1, src_2, pos1 + 1, pos2,
                          run_container_smart_append_exclusive(dst,
                              src_1.runs[pos1 + 1].value, src_1.runs[pos1 + 1].length))
                 ELSE run_xor_loop(src_1, src_2, pos1, pos2 + 1,
                          run_container_smart_append_exclusive(dst,
                              src_2.runs[pos2 + 1].value, src_2.runs[pos2 + 1].length))
    ELSE IF pos1 < src_1.n_runs
        THEN run_xor_loop(src_1, src_2, pos1 + 1, pos2,
                 run_container_smart_append_exclusive(dst,
                     src_1.runs[pos1 + 1].value, src_1.runs[pos1 + 1].length))
    ELSE IF pos2 < src_2.n_runs
        THEN run_xor_loop(src_1, src_2, pos1, pos2 + 1,
                 run_container_smart_append_exclusive(dst,
                     src_2.runs[pos2 + 1].value, src_2.runs[pos2 + 1].length))
    ELSE dst

run_container_xor(src_1, src_2, dst) ==
    run_xor_loop(src_1, src_2, 0, 0, [dst EXCEPT !.n_runs = 0, !.runs = <<>>])

(* The fit step of a run producer: keep the run container when its         *)
(* serialized size (2 + 4 per run) is at most that of the array            *)
(* (2 + 2 per offset) and of the bitset (8192); otherwise an array when    *)
(* the cardinality is at most DEFAULT_MAX_SIZE, else a bitset.  The run    *)
(* container is freed when it is converted.                                *)
convert_run_to_efficient_container_and_free(c) ==
    LET size_as_run_container == 2 + 4 * c.n_runs
        size_as_bitset_container == (ChunkSize \div 64) * 8
        card == run_container_cardinality(c)
        size_as_array_container == 2 * card + 2
        min_size_non_run ==
            IF size_as_bitset_container < size_as_array_container
                THEN size_as_bitset_container ELSE size_as_array_container
    IN  IF size_as_run_container <= min_size_non_run
            THEN [ans |-> c, result_type |-> RUN_CONTAINER_TYPE]
        ELSE IF card <= DEFAULT_MAX_SIZE
            THEN [ans |-> array_container_from_run(c),
                  result_type |-> ARRAY_CONTAINER_TYPE]
        ELSE [ans |-> bitset_container_from_run(c),
              result_type |-> BITSET_CONTAINER_TYPE]

\* the offset at index pos (from 0) of an array's element list
RECURSIVE ArrayAtFrom(_, _)
ArrayAtFrom(list, pos) ==
    IF pos < Weight(Head(list)) THEN BlockLo(Head(list)) + pos
    ELSE ArrayAtFrom(Tail(list), pos - Weight(Head(list)))

ArrayAt(ac, pos) == ArrayAtFrom(ac.array, pos)

(***************************************************************************)
(* mixed_xor.c.  A non-lazy xor returns the new container and writes       *)
(* *result_type: the operators return both, [ans, result_type], and take   *)
(* the value *result_type held before the call as result_type_in.          *)
(***************************************************************************)
Ret(ans, result_type) == [ans |-> ans, result_type |-> result_type]

array_bitset_container_xor(src_1, src_2, result_type_in) ==
    LET copied == bitset_container_copy(src_2, bitset_container_create)
        flip == bitset_flip_list_withcard(copied.words, copied.cardinality,
                                          src_1.array, src_1.cardinality)
        new_bc == [copied EXCEPT !.words = flip.words, !.cardinality = flip.card]
    IN  IF new_bc.cardinality <= DEFAULT_MAX_SIZE
            THEN Ret(array_container_from_bitset(new_bc), ARRAY_CONTAINER_TYPE)
            ELSE Ret(new_bc, BITSET_CONTAINER_TYPE)

\* array_bitset_container_lazy_xor without the copy of src_2 into dst
array_bitset_container_lazy_xor_nocopy(src_1, src_2, dst, aliased) ==
    [dst EXCEPT
        !.words = bitset_flip_list(dst.words, src_1.array, src_1.cardinality),
        !.cardinality = BITSET_UNKNOWN_CARDINALITY]

array_bitset_container_lazy_xor(src_1, src_2, dst, aliased) ==
    LET start == IF ~aliased THEN bitset_container_copy(src_2, dst) ELSE dst
    IN  [start EXCEPT
            !.words = bitset_flip_list(start.words, src_1.array, src_1.cardinality),
            !.cardinality = BITSET_UNKNOWN_CARDINALITY]

\* the loop with the end of the range narrowed to uint16_t
RECURSIVE flip_runs_uint16(_, _, _)
flip_runs_uint16(words, src_1, rlepos) ==
    IF rlepos < src_1.n_runs
        THEN LET rle == src_1.runs[rlepos + 1]
             IN  flip_runs_uint16(
                     bitset_flip_range(words, rle.value,
                         (rle.value + rle.length + 1) % ChunkSize),
                     src_1, rlepos + 1)
        ELSE words

(* The loop over the runs of src_1, flipping value .. value+length in      *)
(* words.  The end of the range is rle.value + rle.length + UINT32_C(1):    *)
(* the two uint16_t are promoted and the sum is a uint32_t, at most 65536.  *)
RECURSIVE flip_runs(_, _, _)
flip_runs(words, src_1, rlepos) ==
    IF rlepos < src_1.n_runs
        THEN LET rle == src_1.runs[rlepos + 1]
             IN  flip_runs(bitset_flip_range(words, rle.value,
                                             rle.value + rle.length + 1),
                           src_1, rlepos + 1)
        ELSE words

\* run_bitset_container_xor without the recount after the flips
run_bitset_container_xor_stale(src_1, src_2, result_type_in) ==
    LET copied == bitset_container_copy(src_2, bitset_container_create)
        new_bc == [copied EXCEPT !.words = flip_runs(copied.words, src_1, 0)]
    IN  IF new_bc.cardinality <= DEFAULT_MAX_SIZE
            THEN Ret(array_container_from_bitset(new_bc), ARRAY_CONTAINER_TYPE)
            ELSE Ret(new_bc, BITSET_CONTAINER_TYPE)

run_bitset_container_xor(src_1, src_2, result_type_in) ==
    LET copied == bitset_container_copy(src_2, bitset_container_create)
        flipped == [copied EXCEPT !.words = flip_runs(copied.words, src_1, 0)]
        new_bc == [flipped EXCEPT
                      !.cardinality = bitset_container_compute_cardinality(flipped)]
    IN  IF new_bc.cardinality <= DEFAULT_MAX_SIZE
            THEN Ret(array_container_from_bitset(new_bc), ARRAY_CONTAINER_TYPE)
            ELSE Ret(new_bc, BITSET_CONTAINER_TYPE)

run_bitset_container_lazy_xor(src_1, src_2, dst, aliased) ==
    LET start == IF ~aliased THEN bitset_container_copy(src_2, dst) ELSE dst
    IN  [start EXCEPT
            !.words = flip_runs(start.words, src_1, 0),
            !.cardinality = BITSET_UNKNOWN_CARDINALITY]

\* the three loops of array_run_container_lazy_xor
RECURSIVE array_run_lazy_loop(_, _, _, _, _)
array_run_lazy_loop(src_1, src_2, rlepos, arraypos, dst) ==
    IF dst.n_runs < 0 THEN dst  \* never: dst is written before the next step
    ELSE IF rlepos < src_2.n_runs /\ arraypos < src_1.cardinality
        THEN IF src_2.runs[rlepos + 1].value <= ArrayAt(src_1, arraypos)
                 THEN array_run_lazy_loop(src_1, src_2, rlepos + 1, arraypos,
                          run_container_smart_append_exclusive(dst,
                              src_2.runs[rlepos + 1].value,
                              src_2.runs[rlepos + 1].length))
                 ELSE array_run_lazy_loop(src_1, src_2, rlepos, arraypos + 1,
                          run_container_smart_append_exclusive(dst,
                              ArrayAt(src_1, arraypos), 0))
    ELSE IF arraypos < src_1.cardinality
        THEN array_run_lazy_loop(src_1, src_2, rlepos, arraypos + 1,
                 run_container_smart_append_exclusive(dst,
                     ArrayAt(src_1, arraypos), 0))
    ELSE IF rlepos < src_2.n_runs
        THEN array_run_lazy_loop(src_1, src_2, rlepos + 1, arraypos,
                 run_container_smart_append_exclusive(dst,
                     src_2.runs[rlepos + 1].value,
                     src_2.runs[rlepos + 1].length))
    ELSE dst

array_run_container_lazy_xor(src_1, src_2, dst) ==
    array_run_lazy_loop(src_1, src_2, 0, 0,
                        [dst EXCEPT !.n_runs = 0, !.runs = <<>>])

\* the feed of array_run_container_lazy_xor with an array offset put before
\* a run of the same start
RECURSIVE array_run_lazy_feed_array_first(_, _, _, _, _)
array_run_lazy_feed_array_first(src_1, src_2, rlepos, arraypos, fed) ==
    IF Len(fed) < 0 THEN fed
    ELSE IF rlepos < src_2.n_runs /\ arraypos < src_1.cardinality
        THEN IF src_2.runs[rlepos + 1].value < ArrayAt(src_1, arraypos)
                 THEN array_run_lazy_feed_array_first(src_1, src_2, rlepos + 1,
                          arraypos,
                          Append(fed, [from |-> "runs",
                                       start |-> src_2.runs[rlepos + 1].value,
                                       length |-> src_2.runs[rlepos + 1].length]))
                 ELSE array_run_lazy_feed_array_first(src_1, src_2, rlepos,
                          arraypos + 1,
                          Append(fed, [from |-> "array",
                                       start |-> ArrayAt(src_1, arraypos),
                                       length |-> 0]))
    ELSE IF arraypos < src_1.cardinality
        THEN array_run_lazy_feed_array_first(src_1, src_2, rlepos, arraypos + 1,
                 Append(fed, [from |-> "array",
                              start |-> ArrayAt(src_1, arraypos),
                              length |-> 0]))
    ELSE IF rlepos < src_2.n_runs
        THEN array_run_lazy_feed_array_first(src_1, src_2, rlepos + 1, arraypos,
                 Append(fed, [from |-> "runs",
                              start |-> src_2.runs[rlepos + 1].value,
                              length |-> src_2.runs[rlepos + 1].length]))
    ELSE fed

(* The three loops of array_run_container_lazy_xor again, for what they    *)
(* pass to run_container_smart_append_exclusive: the calls in their order, *)
(* each with its start and length and whether it comes from the array or   *)
(* from the runs.                                                          *)
RECURSIVE array_run_lazy_feed(_, _, _, _, _)
array_run_lazy_feed(src_1, src_2, rlepos, arraypos, fed) ==
    IF Len(fed) < 0 THEN fed  \* never: fed is written before the next step
    ELSE IF rlepos < src_2.n_runs /\ arraypos < src_1.cardinality
        THEN IF src_2.runs[rlepos + 1].value <= ArrayAt(src_1, arraypos)
                 THEN array_run_lazy_feed(src_1, src_2, rlepos + 1, arraypos,
                          Append(fed, [from |-> "runs",
                                       start |-> src_2.runs[rlepos + 1].value,
                                       length |-> src_2.runs[rlepos + 1].length]))
                 ELSE array_run_lazy_feed(src_1, src_2, rlepos, arraypos + 1,
                          Append(fed, [from |-> "array",
                                       start |-> ArrayAt(src_1, arraypos),
                                       length |-> 0]))
    ELSE IF arraypos < src_1.cardinality
        THEN array_run_lazy_feed(src_1, src_2, rlepos, arraypos + 1,
                 Append(fed, [from |-> "array",
                              start |-> ArrayAt(src_1, arraypos),
                              length |-> 0]))
    ELSE IF rlepos < src_2.n_runs
        THEN array_run_lazy_feed(src_1, src_2, rlepos + 1, arraypos,
                 Append(fed, [from |-> "runs",
                              start |-> src_2.runs[rlepos + 1].value,
                              length |-> src_2.runs[rlepos + 1].length]))
    ELSE fed

(* dst after the calls fed[i], fed[i + 1], ... and the most runs it held   *)
(* after any of them                                                       *)
RECURSIVE fed_into(_, _, _, _)
fed_into(dst, most, fed, i) ==
    IF i > Len(fed) \/ dst.n_runs < 0 THEN [dst |-> dst, most |-> most]
    ELSE LET next == run_container_smart_append_exclusive(dst, fed[i].start,
                                                          fed[i].length)
         IN  fed_into(next,
                      IF next.n_runs > most THEN next.n_runs ELSE most,
                      fed, i + 1)

run_run_container_xor(src_1, src_2, result_type_in) ==
    convert_run_to_efficient_container_and_free(
        run_container_xor(src_1, src_2, run_container_create))

array_array_container_xor(src_1, src_2, result_type_in) ==
    LET totalCardinality == src_1.cardinality + src_2.cardinality
    IN  IF totalCardinality <= DEFAULT_MAX_SIZE
            THEN \* returns new_ac and leaves *result_type as it was
                 Ret(array_container_xor(src_1, src_2,
                         array_container_create_given_capacity(totalCardinality)),
                     result_type_in)
            ELSE LET from_array == bitset_container_from_array(src_1)
                     flip == bitset_flip_list_withcard(from_array.words,
                                 from_array.cardinality,
                                 src_2.array, src_2.cardinality)
                     new_bc == [from_array EXCEPT !.words = flip.words,
                                                  !.cardinality = flip.card]
                 IN  IF new_bc.cardinality <= DEFAULT_MAX_SIZE
                         THEN Ret(array_container_from_bitset(new_bc),
                                  ARRAY_CONTAINER_TYPE)
                         ELSE Ret(new_bc, BITSET_CONTAINER_TYPE)

\* array_array_container_lazy_xor that keeps the cardinality of src_1
array_array_container_lazy_xor_keeps_card(src_1, src_2, alloc_ok) ==
    LET totalCardinality == src_1.cardinality + src_2.cardinality
    IN  IF totalCardinality <= ARRAY_LAZY_LOWERBOUND
            THEN [dst |-> IF alloc_ok
                              THEN array_container_xor(src_1, src_2,
                                       array_container_create_given_capacity(
                                           totalCardinality))
                              ELSE NULL,
                  returnval |-> FALSE]
            ELSE LET dst == IF alloc_ok THEN bitset_container_from_array(src_1)
                                        ELSE NULL
                 IN  [dst |-> IF dst # NULL
                                  THEN [dst EXCEPT
                                          !.words = bitset_flip_list(dst.words,
                                              src_2.array, src_2.cardinality)]
                                  ELSE dst,
                      returnval |-> TRUE]

(* Returns [dst, returnval].  alloc_ok says whether the container           *)
(* allocation succeeds; when it fails *dst is NULL.                        *)
array_array_container_lazy_xor(src_1, src_2, alloc_ok) ==
    LET totalCardinality == src_1.cardinality + src_2.cardinality
    IN  IF totalCardinality <= ARRAY_LAZY_LOWERBOUND
            THEN LET dst == IF alloc_ok
                                THEN array_container_create_given_capacity(
                                         totalCardinality)
                                ELSE NULL
                 IN  [dst |-> IF dst # NULL
                                  THEN array_container_xor(src_1, src_2, dst)
                                  ELSE dst,
                      returnval |-> FALSE]
            ELSE LET dst == IF alloc_ok THEN bitset_container_from_array(src_1)
                                        ELSE NULL
                 IN  [dst |-> IF dst # NULL
                                  THEN [dst EXCEPT
                                          !.words = bitset_flip_list(dst.words,
                                              src_2.array, src_2.cardinality),
                                          !.cardinality = BITSET_UNKNOWN_CARDINALITY]
                                  ELSE dst,
                      returnval |-> TRUE]

\* bitset_bitset_container_xor with the fit step off by one
bitset_bitset_container_xor_lt(src_1, src_2, result_type_in) ==
    LET new_bc == bitset_container_xor(src_1, src_2, bitset_container_create)
        card == new_bc.cardinality
    IN  IF card < DEFAULT_MAX_SIZE
            THEN Ret(array_container_from_bitset(new_bc), ARRAY_CONTAINER_TYPE)
            ELSE Ret(new_bc, BITSET_CONTAINER_TYPE)

bitset_bitset_container_xor(src_1, src_2, result_type_in) ==
    LET new_bc == bitset_container_xor(src_1, src_2, bitset_container_create)
        card == new_bc.cardinality
    IN  IF card <= DEFAULT_MAX_SIZE
            THEN Ret(array_container_from_bitset(new_bc), ARRAY_CONTAINER_TYPE)
            ELSE Ret(new_bc, BITSET_CONTAINER_TYPE)

(***************************************************************************)
(* In-place functions: they take the slot, c1 and type1, and return it as  *)
(* [c1, type1].                                                            *)
(***************************************************************************)
Slot(c, type) == [c1 |-> c, type1 |-> type]

\* bitset_array_container_ixor that sets the bits of ac2 instead of flipping
bitset_array_container_ixor_or(c1, type1, ac2) ==
    LET w == c1.words \cup ListPrefix(ac2.array, ac2.cardinality)
        bc1 == [c1 EXCEPT !.words = w, !.cardinality = SumW(w)]
    IN  IF bc1.cardinality > DEFAULT_MAX_SIZE
            THEN Slot(bc1, type1)
            ELSE Slot(array_container_from_bitset(bc1), type1)

bitset_array_container_ixor(c1, type1, ac2) ==
    LET flip == bitset_flip_list_withcard(c1.words, c1.cardinality,
                                          ac2.array, ac2.cardinality)
        bc1 == [c1 EXCEPT !.words = flip.words, !.cardinality = flip.card]
    IN  IF bc1.cardinality > DEFAULT_MAX_SIZE
            THEN Slot(bc1, type1)
            ELSE \* *c1 is replaced; nothing is written to *type1
                 Slot(array_container_from_bitset(bc1), type1)

\* array_run_container_xor whose bitmap branch forgets the array
array_run_container_xor_no_flip(ac1, rc2, result_type_in) ==
    IF ac1.cardinality < arbitrary_threshold
        THEN convert_run_to_efficient_container_and_free(
                 array_run_container_lazy_xor(ac1, rc2, run_container_create))
    ELSE LET card == run_container_cardinality(rc2)
         IN  IF card <= DEFAULT_MAX_SIZE
                 THEN LET temp == array_container_from_run(rc2)
                      IN  array_array_container_xor(temp, ac1, result_type_in)
                 ELSE Ret(bitset_container_from_run(rc2), BITSET_CONTAINER_TYPE)

array_run_container_xor(ac1, rc2, result_type_in) ==
    IF ac1.cardinality < arbitrary_threshold
        THEN convert_run_to_efficient_container_and_free(
                 array_run_container_lazy_xor(ac1, rc2, run_container_create))
    ELSE LET card == run_container_cardinality(rc2)
         IN  IF card <= DEFAULT_MAX_SIZE
                 THEN LET temp == array_container_from_run(rc2)
                      IN  array_array_container_xor(temp, ac1, result_type_in)
                 ELSE LET ans == bitset_container_from_run(rc2)
                          after == bitset_array_container_ixor(
                                       ans, BITSET_CONTAINER_TYPE, ac1)
                      IN  Ret(after.c1, after.type1)

FromXor(r) == Slot(r.ans, r.result_type)

bitset_bitset_container_ixor(c1, type1, bc2) ==
    FromXor(bitset_bitset_container_xor(c1, bc2, type1))

array_bitset_container_ixor(c1, type1, bc2) ==
    FromXor(array_bitset_container_xor(c1, bc2, type1))

run_bitset_container_ixor(c1, type1, bc2) ==
    FromXor(run_bitset_container_xor(c1, bc2, type1))

bitset_run_container_ixor(c1, type1, rc2) ==
    FromXor(run_bitset_container_xor(rc2, c1, type1))

array_run_container_ixor(c1, type1, rc2) ==
    FromXor(array_run_container_xor(c1, rc2, type1))

run_array_container_ixor(c1, type1, ac2) ==
    FromXor(array_run_container_xor(ac2, c1, type1))

array_array_container_ixor(c1, type1, ac2) ==
    FromXor(array_array_container_xor(c1, ac2, type1))

run_run_container_ixor(c1, type1, rc2) ==
    FromXor(run_run_container_xor(c1, rc2, type1))

(***************************************************************************)
(* Who owns what in mixed_xor.c.  A call is followed as the list of what   *)
(* it does to the containers, named by the variable that points to them:   *)
(* it allocates one, reads one, writes into one, or frees one.  Each       *)
(* function gives this list and the container it returns or leaves in the  *)
(* slot.                                                                   *)
(* The operators take the names of the arguments and their values, which   *)
(* decide the branch.  Every allocation succeeds.                          *)
(***************************************************************************)
Alloc(o) == [op |-> "alloc", obj |-> o]
Use(o) == [op |-> "use", obj |-> o]
Write(o) == [op |-> "write", obj |-> o]
Free(o) == [op |-> "free", obj |-> o]

Owned(events, o) == [events |-> events, ans |-> o]

(* convert_run_to_efficient_container_and_free: the run container is       *)
(* returned, or a new array or bitset is made from it and it is freed      *)
convert_run_to_efficient_container_and_free_own(c, v) ==
    IF convert_run_to_efficient_container_and_free(v).result_type
           = RUN_CONTAINER_TYPE
        THEN Owned(<<Use(c)>>, c)
        ELSE Owned(<<Use(c), Alloc("convert.answer"), Write("convert.answer"),
                     Free(c)>>,
                   "convert.answer")

\* the end of a function that has its result in new_bc: the fit step
fit_own(fn, to_array) ==
    IF to_array
        THEN Owned(<<Use(fn \o ".new_bc"), Alloc(fn \o ".new_ac"),
                     Write(fn \o ".new_ac"), Free(fn \o ".new_bc")>>,
                   fn \o ".new_ac")
        ELSE Owned(<<>>, fn \o ".new_bc")

\* array_array_container_xor that frees new_bc in both branches of the fit
array_array_container_xor_own_frees(src_1, src_2, v1, v2) ==
    IF v1.cardinality + v2.cardinality <= DEFAULT_MAX_SIZE
        THEN Owned(<<Alloc("array_array_container_xor.new_ac"),
                     Use(src_1), Use(src_2),
                     Write("array_array_container_xor.new_ac")>>,
                   "array_array_container_xor.new_ac")
    ELSE LET fit == fit_own("array_array_container_xor", TRUE)
         IN  Owned(<<Use(src_1), Alloc("array_array_container_xor.new_bc"),
                     Use(src_2), Write("array_array_container_xor.new_bc")>>
                       \o fit.events,
                   IF array_array_container_xor(v1, v2, 0).ans.kind = "array"
                       THEN fit.ans
                       ELSE "array_array_container_xor.new_bc")

\* array_bitset_container_xor that flips the bits in src_2 and copies after
array_bitset_container_xor_own_flips_src(src_1, src_2, v1, v2) ==
    LET fit == fit_own("array_bitset_container_xor",
                       array_bitset_container_xor(v1, v2, 0).ans.kind = "array")
    IN  Owned(<<Alloc("array_bitset_container_xor.new_bc"), Use(src_1),
                Write(src_2), Use(src_2),
                Write("array_bitset_container_xor.new_bc")>>
                  \o fit.events,
              fit.ans)

array_bitset_container_xor_own(src_1, src_2, v1, v2) ==
    LET fit == fit_own("array_bitset_container_xor",
                       array_bitset_container_xor(v1, v2, 0).ans.kind = "array")
    IN  Owned(<<Alloc("array_bitset_container_xor.new_bc"), Use(src_2),
                Write("array_bitset_container_xor.new_bc"), Use(src_1),
                Write("array_bitset_container_xor.new_bc")>>
                  \o fit.events,
              fit.ans)

run_bitset_container_xor_own(src_1, src_2, v1, v2) ==
    LET fit == fit_own("run_bitset_container_xor",
                       run_bitset_container_xor(v1, v2, 0).ans.kind = "array")
    IN  Owned(<<Alloc("run_bitset_container_xor.new_bc"), Use(src_2),
                Write("run_bitset_container_xor.new_bc"), Use(src_1),
                Write("run_bitset_container_xor.new_bc")>>
                  \o fit.events,
              fit.ans)

bitset_bitset_container_xor_own(src_1, src_2, v1, v2) ==
    LET fit == fit_own("bitset_bitset_container_xor",
                       bitset_bitset_container_xor(v1, v2, 0).ans.kind = "array")
    IN  Owned(<<Alloc("bitset_bitset_container_xor.new_bc"), Use(src_1),
                Use(src_2), Write("bitset_bitset_container_xor.new_bc")>>
                  \o fit.events,
              fit.ans)

array_array_container_xor_own(src_1, src_2, v1, v2) ==
    IF v1.cardinality + v2.cardinality <= DEFAULT_MAX_SIZE
        THEN Owned(<<Alloc("array_array_container_xor.new_ac"),
                     Use(src_1), Use(src_2),
                     Write("array_array_container_xor.new_ac")>>,
                   "array_array_container_xor.new_ac")
    ELSE LET fit == fit_own("array_array_container_xor",
                            array_array_container_xor(v1, v2, 0).ans.kind
                                = "array")
         IN  Owned(<<Use(src_1), Alloc("array_array_container_xor.new_bc"),
                     Use(src_2), Write("array_array_container_xor.new_bc")>>
                       \o fit.events,
                   fit.ans)

run_run_container_xor_own(src_1, src_2, v1, v2) ==
    LET fit == convert_run_to_efficient_container_and_free_own(
                   "run_run_container_xor.new_rc",
                   run_container_xor(v1, v2, run_container_create))
    IN  Owned(<<Alloc("run_run_container_xor.new_rc"), Use(src_1), Use(src_2),
                Write("run_run_container_xor.new_rc")>> \o fit.events,
              fit.ans)

(* The slot is named c1 and holds bc1 on entry; the answer is what it      *)
(* holds on return.                                                        *)
bitset_array_container_ixor_own(bc1, ac2, v1, v2) ==
    IF bitset_array_container_ixor(v1, BITSET_CONTAINER_TYPE, v2).c1.kind
           = "bitset"
        THEN Owned(<<Use(ac2), Write(bc1)>>, bc1)
        ELSE Owned(<<Use(ac2), Write(bc1), Use(bc1),
                     Alloc("bitset_array_container_ixor.c1"),
                     Write("bitset_array_container_ixor.c1"), Free(bc1)>>,
                   "bitset_array_container_ixor.c1")

array_run_container_xor_own(ac1, rc2, v1, v2) ==
    IF v1.cardinality < arbitrary_threshold
        THEN LET fit == convert_run_to_efficient_container_and_free_own(
                            "array_run_container_xor.new_rc",
                            array_run_container_lazy_xor(v1, v2,
                                                         run_container_create))
             IN  Owned(<<Alloc("array_run_container_xor.new_rc"), Use(ac1),
                         Use(rc2), Write("array_run_container_xor.new_rc")>>
                           \o fit.events,
                       fit.ans)
    ELSE IF run_container_cardinality(v2) <= DEFAULT_MAX_SIZE
        THEN LET inner == array_array_container_xor_own(
                              "array_run_container_xor.temp", ac1,
                              array_container_from_run(v2), v1)
             IN  Owned(<<Use(rc2), Alloc("array_run_container_xor.temp"),
                         Write("array_run_container_xor.temp")>>
                           \o inner.events
                           \o <<Free("array_run_container_xor.temp")>>,
                       inner.ans)
    ELSE LET inner == bitset_array_container_ixor_own(
                          "array_run_container_xor.ans", ac1,
                          bitset_container_from_run(v2), v1)
         IN  Owned(<<Use(rc2), Alloc("array_run_container_xor.ans"),
                     Write("array_run_container_xor.ans")>>
                       \o inner.events,
                   inner.ans)

\* the eight in-place functions that call the xor and free what c1 held
bitset_bitset_container_ixor_own(bc1, bc2, v1, v2) ==
    LET inner == bitset_bitset_container_xor_own(bc1, bc2, v1, v2)
    IN  Owned(inner.events \o <<Free(bc1)>>, inner.ans)

array_bitset_container_ixor_own(ac1, bc2, v1, v2) ==
    LET inner == array_bitset_container_xor_own(ac1, bc2, v1, v2)
    IN  Owned(inner.events \o <<Free(ac1)>>, inner.ans)

run_bitset_container_ixor_own(rc1, bc2, v1, v2) ==
    LET inner == run_bitset_container_xor_own(rc1, bc2, v1, v2)
    IN  Owned(inner.events \o <<Free(rc1)>>, inner.ans)

bitset_run_container_ixor_own(bc1, rc2, v1, v2) ==
    LET inner == run_bitset_container_xor_own(rc2, bc1, v2, v1)
    IN  Owned(inner.events \o <<Free(bc1)>>, inner.ans)

array_run_container_ixor_own(ac1, rc2, v1, v2) ==
    LET inner == array_run_container_xor_own(ac1, rc2, v1, v2)
    IN  Owned(inner.events \o <<Free(ac1)>>, inner.ans)

run_array_container_ixor_own(rc1, ac2, v1, v2) ==
    LET inner == array_run_container_xor_own(ac2, rc1, v2, v1)
    IN  Owned(inner.events \o <<Free(rc1)>>, inner.ans)

array_array_container_ixor_own(ac1, ac2, v1, v2) ==
    LET inner == array_array_container_xor_own(ac1, ac2, v1, v2)
    IN  Owned(inner.events \o <<Free(ac1)>>, inner.ans)

run_run_container_ixor_own(rc1, rc2, v1, v2) ==
    LET inner == run_run_container_xor_own(rc1, rc2, v1, v2)
    IN  Owned(inner.events \o <<Free(rc1)>>, inner.ans)

\* array_array_container_lazy_xor: *dst is the container it allocates
array_array_container_lazy_xor_own(src_1, src_2, v1, v2) ==
    IF v1.cardinality + v2.cardinality <= ARRAY_LAZY_LOWERBOUND
        THEN Owned(<<Alloc("array_array_container_lazy_xor.dst"), Use(src_1),
                     Use(src_2), Write("array_array_container_lazy_xor.dst")>>,
                   "array_array_container_lazy_xor.dst")
        ELSE Owned(<<Use(src_1), Alloc("array_array_container_lazy_xor.dst"),
                     Use(src_2), Write("array_array_container_lazy_xor.dst")>>,
                   "array_array_container_lazy_xor.dst")

(* What the list leaves: the containers that are live, those freed, those  *)
(* allocated and those written into, and whether one was freed or touched  *)
(* that was not live, or allocated twice.                                  *)
RECURSIVE Replay(_, _, _)
Replay(events, i, m) ==
    IF i > Len(events) \/ m.fault THEN m
    ELSE LET e == events[i]
         IN  Replay(events, i + 1,
                 CASE e.op = "alloc" ->
                         IF e.obj \in m.live \cup m.freed
                             THEN [m EXCEPT !.fault = TRUE]
                             ELSE [m EXCEPT !.live = @ \cup {e.obj},
                                            !.made = @ \cup {e.obj}]
                   [] e.op = "free" ->
                         IF e.obj \in m.live
                             THEN [m EXCEPT !.live = @ \ {e.obj},
                                            !.freed = @ \cup {e.obj}]
                             ELSE [m EXCEPT !.fault = TRUE]
                   [] e.op = "use" ->
                         IF e.obj \in m.live THEN m
                                             ELSE [m EXCEPT !.fault = TRUE]
                   [] e.op = "write" ->
                         IF e.obj \in m.live
                             THEN [m EXCEPT !.written = @ \cup {e.obj}]
                             ELSE [m EXCEPT !.fault = TRUE])

\* the memory a call starts from: its two arguments are live
Entered(o1, o2) ==
    [live |-> {o1, o2}, freed |-> {}, made |-> {}, written |-> {},
     fault |-> FALSE]

(***************************************************************************)
(* The C bitmap behind the wrapper: roaring_bitmap_t, a directory of       *)
(* containers in ascending key order, key the high 16 bits of the values   *)
(* and container the set of their low 16 bits; no container is empty.      *)
(* The values the model uses lie in a window around the boundary between   *)
(* chunk 0 and chunk 1.                                                    *)
(***************************************************************************)
\* half the width of the window of values
Half == 2

Window == (ChunkSize - Half)..(ChunkSize + Half - 1)

(* The values are 32-bit: a key of 16 bits above an offset of 16 bits.  The *)
(* model gives the key KeyBits bits, so that the end of the value space,   *)
(* 0x100000000 in the program, is a number the arguments can pass.         *)
KeyBits == 2

ValueLimit == (2^KeyBits) * ChunkSize

\* static_cast<uint32_t> of a 64-bit argument
uint32_t(x) == x % ValueLimit

high(x) == x \div ChunkSize
low(x) == x % ChunkSize

\* the index of the container of key, or 0
ra_get_index(ra, key) ==
    IF \E i \in 1..Len(ra) : ra[i].key = key
        THEN CHOOSE i \in 1..Len(ra) : ra[i].key = key
        ELSE 0

\* inserts the container e after position i
ra_insert_new_key_value_at(ra, i, e) ==
    SubSeq(ra, 1, i) \o <<e>> \o SubSeq(ra, i + 1, Len(ra))

ra_remove_at_index(ra, i) ==
    SubSeq(ra, 1, i - 1) \o SubSeq(ra, i + 1, Len(ra))

roaring_bitmap_contains(r, x) ==
    \E i \in 1..Len(r) : r[i].key = high(x) /\ low(x) \in r[i].container

roaring_bitmap_add(r, x) ==
    LET i == ra_get_index(r, high(x))
    IN  IF i # 0 THEN [r EXCEPT ![i].container = @ \cup {low(x)}]
        ELSE ra_insert_new_key_value_at(r,
                 Cardinality({j \in 1..Len(r) : r[j].key < high(x)}),
                 [key |-> high(x), container |-> {low(x)}])

roaring_bitmap_remove(r, x) ==
    LET i == ra_get_index(r, high(x))
    IN  IF i = 0 THEN r
        ELSE IF r[i].container \ {low(x)} = {} THEN ra_remove_at_index(r, i)
        ELSE [r EXCEPT ![i].container = @ \ {low(x)}]

\* adds min .. max
RECURSIVE roaring_bitmap_add_range_closed(_, _, _)
roaring_bitmap_add_range_closed(r, min, max) ==
    IF min > max THEN r
    ELSE roaring_bitmap_add_range_closed(roaring_bitmap_add(r, min), min + 1, max)

\* adds x .. y - 1, an end beyond the value space taken as its end
roaring_bitmap_add_range(r, x, y) ==
    IF y <= x THEN r
    ELSE roaring_bitmap_add_range_closed(
             r, x, (IF y > ValueLimit THEN ValueLimit ELSE y) - 1)

\* toggles range_start .. range_end - 1
RECURSIVE roaring_bitmap_flip_from(_, _, _)
roaring_bitmap_flip_from(r, range_start, range_end) ==
    IF range_start >= range_end THEN r
    ELSE roaring_bitmap_flip_from(
             IF roaring_bitmap_contains(r, range_start)
                 THEN roaring_bitmap_remove(r, range_start)
                 ELSE roaring_bitmap_add(r, range_start),
             range_start + 1, range_end)

\* an end beyond the value space is taken as its end
roaring_bitmap_flip_inplace(r, range_start, range_end) ==
    IF range_start >= range_end THEN r
    ELSE roaring_bitmap_flip_from(
             r, range_start,
             IF range_end >= ValueLimit THEN ValueLimit ELSE range_end)

RECURSIVE roaring_bitmap_get_cardinality_from(_, _)
roaring_bitmap_get_cardinality_from(r, i) ==
    IF i > Len(r) THEN 0
    ELSE Cardinality(r[i].container) + roaring_bitmap_get_cardinality_from(r, i + 1)

roaring_bitmap_get_cardinality(r) == roaring_bitmap_get_cardinality_from(r, 1)

roaring_bitmap_is_empty(r) == Len(r) = 0

\* the offset of c with exactly rnk smaller offsets in c
container_select(c, rnk) ==
    CHOOSE v \in c : Cardinality({u \in c : u < v}) = rnk

container_rank(c, x) == Cardinality({u \in c : u <= x})

(* Walks the containers in order; skips a container whose cardinality is   *)
(* at most the remaining rank, deducting it; selects in the first that     *)
(* survives.  Returns [ans, element]; *element is written only on success. *)
RECURSIVE roaring_bitmap_select_from(_, _, _, _)
roaring_bitmap_select_from(r, i, rnk, element_in) ==
    IF i > Len(r) THEN [ans |-> FALSE, element |-> element_in]
    ELSE IF Cardinality(r[i].container) <= rnk
        THEN roaring_bitmap_select_from(r, i + 1,
                 rnk - Cardinality(r[i].container), element_in)
    ELSE [ans |-> TRUE,
          element |-> r[i].key * ChunkSize + container_select(r[i].container, rnk)]

roaring_bitmap_select(r, rnk, element_in) ==
    roaring_bitmap_select_from(r, 1, rnk, element_in)

(* The cardinalities of the containers of key below high(x), plus the rank *)
(* of low(x) in the container of key high(x).                              *)
RECURSIVE roaring_bitmap_rank_from(_, _, _)
roaring_bitmap_rank_from(r, i, x) ==
    IF i > Len(r) \/ r[i].key > high(x) THEN 0
    ELSE IF r[i].key = high(x) THEN container_rank(r[i].container, low(x))
    ELSE Cardinality(r[i].container) + roaring_bitmap_rank_from(r, i + 1, x)

roaring_bitmap_rank(r, x) == roaring_bitmap_rank_from(r, 1, x)

\* the values in the order roaring_iterate visits them
RECURSIVE SortAscending(_)
SortAscending(S) ==
    IF S = {} THEN <<>>
    ELSE LET m == CHOOSE v \in S : \A u \in S : v <= u
         IN  <<m>> \o SortAscending(S \ {m})

RECURSIVE roaring_iterate_from(_, _)
roaring_iterate_from(r, i) ==
    IF i > Len(r) THEN <<>>
    ELSE [j \in 1..Cardinality(r[i].container) |->
             r[i].key * ChunkSize + SortAscending(r[i].container)[j]]
         \o roaring_iterate_from(r, i + 1)

roaring_iterate(r) == roaring_iterate_from(r, 1)

roaring_bitmap_equals(r1, r2) == r1 = r2

(***************************************************************************)
(* The set operations of the C bitmap.  The materialized form merges the   *)
(* two directories by key into a new one; the in-place form rewrites the   *)
(* containers of x1 one key at a time.                                     *)
(***************************************************************************)
container_op(op, a, b) ==
    CASE op = "and" -> a \cap b
      [] op = "or" -> a \cup b
      [] op = "xor" -> SymDiff(a, b)
      [] op = "andnot" -> a \ b

\* appends the container unless it is empty
ra_append(ra, key, c) ==
    IF c = {} THEN ra ELSE Append(ra, [key |-> key, container |-> c])

RECURSIVE ra_merge(_, _, _, _, _, _)
ra_merge(op, x1, x2, pos1, pos2, answer) ==
    IF pos1 <= Len(x1) /\ pos2 <= Len(x2) /\ x1[pos1].key = x2[pos2].key
        THEN ra_merge(op, x1, x2, pos1 + 1, pos2 + 1,
                 ra_append(answer, x1[pos1].key,
                     container_op(op, x1[pos1].container, x2[pos2].container)))
    ELSE IF pos1 <= Len(x1) /\ (pos2 > Len(x2) \/ x1[pos1].key < x2[pos2].key)
        THEN ra_merge(op, x1, x2, pos1 + 1, pos2,
                 ra_append(answer, x1[pos1].key,
                     container_op(op, x1[pos1].container, {})))
    ELSE IF pos2 <= Len(x2)
        THEN ra_merge(op, x1, x2, pos1, pos2 + 1,
                 ra_append(answer, x2[pos2].key,
                     container_op(op, {}, x2[pos2].container)))
    ELSE answer

roaring_bitmap_and(x1, x2) == ra_merge("and", x1, x2, 1, 1, <<>>)
roaring_bitmap_andnot(x1, x2) == ra_merge("andnot", x1, x2, 1, 1, <<>>)
roaring_bitmap_or(x1, x2) == ra_merge("or", x1, x2, 1, 1, <<>>)
roaring_bitmap_xor(x1, x2) == ra_merge("xor", x1, x2, 1, 1, <<>>)

ra_get_container(ra, key) ==
    IF ra_get_index(ra, key) = 0 THEN {} ELSE ra[ra_get_index(ra, key)].container

\* replaces the container of key by c: removed when c is empty, inserted when new
ra_set_container(ra, key, c) ==
    LET i == ra_get_index(ra, key)
    IN  IF i # 0
            THEN IF c = {} THEN ra_remove_at_index(ra, i)
                 ELSE [ra EXCEPT ![i].container = c]
        ELSE IF c = {} THEN ra
        ELSE ra_insert_new_key_value_at(ra,
                 Cardinality({j \in 1..Len(ra) : ra[j].key < key}),
                 [key |-> key, container |-> c])

ra_keys(ra) == [i \in 1..Len(ra) |-> ra[i].key]

RECURSIVE ra_inplace(_, _, _, _, _)
ra_inplace(op, x1, x2, keys, i) ==
    IF i > Len(keys) THEN x1
    ELSE ra_inplace(op,
             ra_set_container(x1, keys[i],
                 container_op(op, ra_get_container(x1, keys[i]),
                                  ra_get_container(x2, keys[i]))),
             x2, keys, i + 1)

roaring_bitmap_and_inplace(x1, x2) == ra_inplace("and", x1, x2, ra_keys(x1), 1)
roaring_bitmap_andnot_inplace(x1, x2) == ra_inplace("andnot", x1, x2, ra_keys(x2), 1)
roaring_bitmap_or_inplace(x1, x2) == ra_inplace("or", x1, x2, ra_keys(x2), 1)
roaring_bitmap_xor_inplace(x1, x2) == ra_inplace("xor", x1, x2, ra_keys(x2), 1)

RECURSIVE roaring_bitmap_add_many(_, _, _)
roaring_bitmap_add_many(r, n_args, vals) ==
    IF n_args = 0 THEN r
    ELSE roaring_bitmap_add_many(roaring_bitmap_add(r, Head(vals)),
                                 n_args - 1, Tail(vals))

(***************************************************************************)
(* class Roaring of roaring.hh, built with ROARING_DOUBLECHECK_CPP: an     *)
(* object is the C bitmap `roaring` and the std::set `check` every method  *)
(* keeps beside it.  An iterator of the std::set is the value it points    *)
(* at, or it_end.  A method that asserts returns, as `asserted`, whether   *)
(* its assertions held.  The values of the window are far below 2^32, so   *)
(* the casts and the clamp of the 64-bit arguments leave them as they are. *)
(***************************************************************************)
it_end == -1

set_begin(S) == IF S = {} THEN it_end ELSE CHOOSE v \in S : \A u \in S : v <= u
set_next(S, it) == set_begin({u \in S : u > it})
set_lower_bound(S, x) == set_begin({u \in S : u >= x})
set_rbegin(S) == CHOOSE v \in S : \A u \in S : u <= v

Roaring(r, chk) == [roaring |-> r, check |-> chk]

\* Roaring(size_t n, const uint32_t *data)
RoaringOfData(n, data) ==
    Roaring(roaring_bitmap_add_many(<<>>, n, data), SeqRange(data))

\* Roaring(roaring_bitmap_t *s): steals the struct and iterates it into check
RoaringOfStruct(s) == Roaring(s, SeqRange(roaring_iterate(s)))

\* Roaring(const Roaring &r)
RoaringCopy(r) == Roaring(r.roaring, r.check)

add(self, x) == Roaring(roaring_bitmap_add(self.roaring, x), self.check \cup {x})

\* addRange(x, y): the check build casts x and y - 1 to uint32_t
addRange(self, x, y) ==
    Roaring(roaring_bitmap_add_range(self.roaring, x, y),
            IF x # y
                THEN LET min == uint32_t(x)
                         max == uint32_t(y - 1)
                     IN  IF min <= max THEN self.check \cup (min..max)
                         ELSE self.check
                ELSE self.check)

remove(self, x) ==
    Roaring(roaring_bitmap_remove(self.roaring, x), self.check \ {x})

\* the loop of flip over check, hint moving along the set
RECURSIVE flip_check(_, _, _, _)
flip_check(chk, hint, i, range_end) ==
    IF i >= range_end THEN chk
    ELSE IF hint = it_end \/ hint > i
        THEN flip_check(chk \cup {i}, hint, i + 1, range_end)
    ELSE flip_check(chk \ {hint}, set_next(chk, hint), i + 1, range_end)

\* flip whose check build walks to range_end whatever it is
flip_unbounded(self, range_start, range_end) ==
    Roaring(roaring_bitmap_flip_inplace(self.roaring, range_start, range_end),
            IF range_start < range_end
                THEN flip_check(self.check,
                                set_lower_bound(self.check, uint32_t(range_start)),
                                range_start, range_end)
                ELSE self.check)

\* flip(range_start, range_end): the check build bounds range_end by
\* 0x100000000; lower_bound takes range_start as a uint32_t
flip(self, range_start, range_end) ==
    Roaring(roaring_bitmap_flip_inplace(self.roaring, range_start, range_end),
            IF range_start < range_end
                THEN flip_check(self.check,
                                set_lower_bound(self.check, uint32_t(range_start)),
                                range_start,
                                IF range_end >= ValueLimit THEN ValueLimit
                                                           ELSE range_end)
                ELSE self.check)

\* the iterator of select after at most rnk steps from begin
RECURSIVE select_advance(_, _, _, _)
select_advance(chk, it, i, rnk) ==
    IF it # it_end /\ i < rnk THEN select_advance(chk, set_next(chk, it), i + 1, rnk)
    ELSE it

\* select with the loop of the check running one step too far
select_one_more(self, rnk, element_in) ==
    LET r == roaring_bitmap_select(self.roaring, rnk, element_in)
        it == select_advance(self.check, set_begin(self.check), 0, rnk + 1)
    IN  [ans |-> r.ans, element |-> r.element,
         asserted |-> /\ r.ans = (it # it_end)
                      /\ IF r.ans THEN it = r.element ELSE TRUE]

select(self, rnk, element_in) ==
    LET r == roaring_bitmap_select(self.roaring, rnk, element_in)
        it == select_advance(self.check, set_begin(self.check), 0, rnk)
    IN  [ans |-> r.ans, element |-> r.element,
         asserted |-> /\ r.ans = (it # it_end)
                      /\ IF r.ans THEN it = r.element ELSE TRUE]

RECURSIVE rank_count(_, _, _, _)
rank_count(chk, it, x, count) ==
    IF it # it_end /\ it <= x THEN rank_count(chk, set_next(chk, it), x, count + 1)
    ELSE count

\* rank counting the members below x only
rank_below(self, x) ==
    LET n == roaring_bitmap_rank(self.roaring, x)
    IN  [ans |-> n,
         asserted |-> n = rank_count(self.check, set_begin(self.check), x - 1, 0)]

rank(self, x) ==
    LET n == roaring_bitmap_rank(self.roaring, x)
    IN  [ans |-> n,
         asserted |-> n = rank_count(self.check, set_begin(self.check), x, 0)]

\* the loop of operator&= over check and r.check
RECURSIVE and_assign_check(_, _, _, _)
and_assign_check(chk, rchk, it, r_it) ==
    IF it # it_end /\ r_it # it_end
        THEN IF it < r_it
                 THEN and_assign_check(chk \ {it}, rchk, set_next(chk, it), r_it)
             ELSE IF r_it < it
                 THEN and_assign_check(chk, rchk, it, set_next(rchk, r_it))
             ELSE and_assign_check(chk, rchk, set_next(chk, it), set_next(rchk, r_it))
    ELSE IF it = it_end THEN chk
    ELSE {v \in chk : v < it}

and_assign(self, r) ==
    Roaring(roaring_bitmap_and_inplace(self.roaring, r.roaring),
            and_assign_check(self.check, r.check,
                             set_begin(self.check), set_begin(r.check)))

andnot_assign(self, r) ==
    Roaring(roaring_bitmap_andnot_inplace(self.roaring, r.roaring),
            self.check \ r.check)

or_assign(self, r) ==
    Roaring(roaring_bitmap_or_inplace(self.roaring, r.roaring),
            self.check \cup r.check)

\* the loop of operator^= over check and r.check when the two may overlap
RECURSIVE xor_assign_check(_, _, _, _)
xor_assign_check(chk, rchk, it, r_it) ==
    IF r_it = it_end THEN chk
    ELSE IF it = it_end
        THEN xor_assign_check(chk \cup {r_it}, rchk, it, set_next(rchk, r_it))
    ELSE IF it = r_it
        THEN xor_assign_check(chk \ {it}, rchk, set_next(chk, it),
                              set_next(rchk, r_it))
    ELSE IF it < r_it
        THEN xor_assign_check(chk, rchk, set_next(chk, it), r_it)
    ELSE xor_assign_check(chk \cup {r_it}, rchk, it, set_next(rchk, r_it))

xor_assign(self, r) ==
    Roaring(roaring_bitmap_xor_inplace(self.roaring, r.roaring),
            IF self.check = {} THEN r.check
            ELSE IF r.check = {} THEN self.check
            ELSE IF set_begin(self.check) > set_rbegin(r.check)
                    \/ set_begin(r.check) > set_rbegin(self.check)
                THEN self.check \cup r.check
            ELSE xor_assign_check(self.check, r.check,
                                  set_begin(self.check), set_begin(r.check)))

\* operator==
equals(self, r) ==
    LET eq == roaring_bitmap_equals(self.roaring, r.roaring)
    IN  [ans |-> eq, asserted |-> eq = (self.check = r.check)]

(* The binary operators: the C function builds the result, and the check   *)
(* build compares it with the in-place operator applied to a copy of       *)
(* *this.  They return the result, the copy after the in-place operator    *)
(* and whether the assertions held.                                        *)
Materialized(result, inplace_after) ==
    [ans |-> result, inplace |-> inplace_after,
     asserted |-> /\ equals(result, inplace_after).asserted
                  /\ equals(result, inplace_after).ans]

operator_and(self, o) ==
    Materialized(RoaringOfStruct(roaring_bitmap_and(self.roaring, o.roaring)),
                 and_assign(RoaringCopy(self), o))

\* operator- with its operands taken the other way round
operator_andnot_swapped(self, o) ==
    Materialized(RoaringOfStruct(roaring_bitmap_andnot(o.roaring, self.roaring)),
                 andnot_assign(RoaringCopy(o), self))

operator_andnot(self, o) ==
    Materialized(RoaringOfStruct(roaring_bitmap_andnot(self.roaring, o.roaring)),
                 andnot_assign(RoaringCopy(self), o))

operator_or(self, o) ==
    Materialized(RoaringOfStruct(roaring_bitmap_or(self.roaring, o.roaring)),
                 or_assign(RoaringCopy(self), o))

\* operator^ that returns the union of its operands
operator_xor_of_union(self, o) ==
    Materialized(RoaringOfStruct(roaring_bitmap_or(self.roaring, o.roaring)),
                 xor_assign(RoaringCopy(self), o))

operator_xor(self, o) ==
    Materialized(RoaringOfStruct(roaring_bitmap_xor(self.roaring, o.roaring)),
                 xor_assign(RoaringCopy(self), o))

(***************************************************************************)
(* The queries of the C bitmap on two directories: the cardinality-only    *)
(* forms walk the two directories by key and count what the set operation  *)
(* would hold without building it.                                         *)
(***************************************************************************)
RECURSIVE roaring_bitmap_and_cardinality_from(_, _, _, _)
roaring_bitmap_and_cardinality_from(x1, x2, pos1, pos2) ==
    IF pos1 > Len(x1) \/ pos2 > Len(x2) THEN 0
    ELSE IF x1[pos1].key = x2[pos2].key
        THEN Cardinality(x1[pos1].container \cap x2[pos2].container)
             + roaring_bitmap_and_cardinality_from(x1, x2, pos1 + 1, pos2 + 1)
    ELSE IF x1[pos1].key < x2[pos2].key
        THEN roaring_bitmap_and_cardinality_from(x1, x2, pos1 + 1, pos2)
    ELSE roaring_bitmap_and_cardinality_from(x1, x2, pos1, pos2 + 1)

roaring_bitmap_and_cardinality(x1, x2) ==
    roaring_bitmap_and_cardinality_from(x1, x2, 1, 1)

roaring_bitmap_or_cardinality(x1, x2) ==
    roaring_bitmap_get_cardinality(x1) + roaring_bitmap_get_cardinality(x2)
        - roaring_bitmap_and_cardinality(x1, x2)

roaring_bitmap_andnot_cardinality(x1, x2) ==
    roaring_bitmap_get_cardinality(x1) - roaring_bitmap_and_cardinality(x1, x2)

roaring_bitmap_xor_cardinality(x1, x2) ==
    roaring_bitmap_get_cardinality(x1) + roaring_bitmap_get_cardinality(x2)
        - 2 * roaring_bitmap_and_cardinality(x1, x2)

\* every key of r1 is a key of r2, with its container inside the one of r2
roaring_bitmap_is_subset(r1, r2) ==
    \A i \in 1..Len(r1) :
        /\ ra_get_index(r2, r1[i].key) # 0
        /\ r1[i].container \subseteq ra_get_container(r2, r1[i].key)

\* the merge walk stops at the first key held by both whose containers meet
RECURSIVE roaring_bitmap_intersect_from(_, _, _, _)
roaring_bitmap_intersect_from(x1, x2, pos1, pos2) ==
    IF pos1 > Len(x1) \/ pos2 > Len(x2) THEN FALSE
    ELSE IF x1[pos1].key = x2[pos2].key
        THEN \/ x1[pos1].container \cap x2[pos2].container # {}
             \/ roaring_bitmap_intersect_from(x1, x2, pos1 + 1, pos2 + 1)
    ELSE IF x1[pos1].key < x2[pos2].key
        THEN roaring_bitmap_intersect_from(x1, x2, pos1 + 1, pos2)
    ELSE roaring_bitmap_intersect_from(x1, x2, pos1, pos2 + 1)

roaring_bitmap_intersect(x1, x2) == roaring_bitmap_intersect_from(x1, x2, 1, 1)

(***************************************************************************)
(* The queries of class Roaring on two objects.  Each returns what the C   *)
(* function returned and whether the count made over the two std::sets     *)
(* agreed with it.                                                         *)
(***************************************************************************)
\* cardinality()
cardinality(self) ==
    LET n == roaring_bitmap_get_cardinality(self.roaring)
    IN  [ans |-> n, asserted |-> n = Cardinality(self.check)]

\* the first two tests of the four counts: one set empty, or the two apart
check_empty(self, r) == self.check = {} \/ r.check = {}

check_disjoint(self, r) ==
    \/ set_begin(self.check) > set_rbegin(r.check)
    \/ set_begin(r.check) > set_rbegin(self.check)

\* the loop of and_cardinality (count from 0, up) and of andnot_cardinality
\* (count from check.size(), down): step is what an overlap adds to count
RECURSIVE overlap_count(_, _, _, _, _, _)
overlap_count(chk, rchk, it, r_it, count, step) ==
    IF it # it_end /\ r_it # it_end
        THEN IF it = r_it
                 THEN overlap_count(chk, rchk, set_next(chk, it),
                                    set_next(rchk, r_it), count + step, step)
             ELSE IF it < r_it
                 THEN overlap_count(chk, rchk, set_next(chk, it), r_it, count, step)
             ELSE overlap_count(chk, rchk, it, set_next(rchk, r_it), count, step)
    ELSE count

and_cardinality(self, r) ==
    LET n == roaring_bitmap_and_cardinality(self.roaring, r.roaring)
    IN  [ans |-> n,
         asserted |->
            IF check_empty(self, r) THEN n = 0
            ELSE IF check_disjoint(self, r) THEN n = 0
            ELSE n = overlap_count(self.check, r.check, set_begin(self.check),
                                   set_begin(r.check), 0, 1)]

\* the loop of or_cardinality (a match counts once: matched = 1) and of
\* xor_cardinality (a match is not counted: matched = 0)
RECURSIVE merge_count(_, _, _, _, _, _)
merge_count(chk, rchk, it, r_it, count, matched) ==
    IF it # it_end \/ r_it # it_end
        THEN IF it = it_end
                 THEN merge_count(chk, rchk, it, set_next(rchk, r_it),
                                  count + 1, matched)
             ELSE IF r_it = it_end
                 THEN merge_count(chk, rchk, set_next(chk, it), r_it,
                                  count + 1, matched)
             ELSE IF it = r_it
                 THEN merge_count(chk, rchk, set_next(chk, it),
                                  set_next(rchk, r_it), count + matched, matched)
             ELSE IF it < r_it
                 THEN merge_count(chk, rchk, set_next(chk, it), r_it,
                                  count + 1, matched)
             ELSE merge_count(chk, rchk, it, set_next(rchk, r_it),
                              count + 1, matched)
    ELSE count

or_cardinality(self, r) ==
    LET n == roaring_bitmap_or_cardinality(self.roaring, r.roaring)
    IN  [ans |-> n,
         asserted |->
            IF self.check = {} THEN n = Cardinality(r.check)
            ELSE IF r.check = {} THEN n = Cardinality(self.check)
            ELSE IF check_disjoint(self, r)
                THEN n = Cardinality(self.check) + Cardinality(r.check)
            ELSE n = merge_count(self.check, r.check, set_begin(self.check),
                                 set_begin(r.check), 0, 1)]

andnot_cardinality(self, r) ==
    LET n == roaring_bitmap_andnot_cardinality(self.roaring, r.roaring)
    IN  [ans |-> n,
         asserted |->
            IF self.check = {} THEN n = 0
            ELSE IF r.check = {} THEN n = Cardinality(self.check)
            ELSE IF check_disjoint(self, r) THEN n = Cardinality(self.check)
            ELSE n = overlap_count(self.check, r.check, set_begin(self.check),
                                   set_begin(r.check),
                                   Cardinality(self.check), -1)]

\* xor_cardinality asking the C bitmap for the cardinality of the union
xor_cardinality_of_union(self, r) ==
    LET n == roaring_bitmap_or_cardinality(self.roaring, r.roaring)
    IN  [ans |-> n,
         asserted |->
            IF self.check = {} THEN n = Cardinality(r.check)
            ELSE IF r.check = {} THEN n = Cardinality(self.check)
            ELSE IF check_disjoint(self, r)
                THEN n = Cardinality(self.check) + Cardinality(r.check)
            ELSE n = merge_count(self.check, r.check, set_begin(self.check),
                                 set_begin(r.check), 0, 0)]

xor_cardinality(self, r) ==
    LET n == roaring_bitmap_xor_cardinality(self.roaring, r.roaring)
    IN  [ans |-> n,
         asserted |->
            IF self.check = {} THEN n = Cardinality(r.check)
            ELSE IF r.check = {} THEN n = Cardinality(self.check)
            ELSE IF check_disjoint(self, r)
                THEN n = Cardinality(self.check) + Cardinality(r.check)
            ELSE n = merge_count(self.check, r.check, set_begin(self.check),
                                 set_begin(r.check), 0, 0)]

\* isSubset asking whether r is a subset of *this
isSubset_of_r(self, r) ==
    LET sub == roaring_bitmap_is_subset(r.roaring, self.roaring)
    IN  [ans |-> sub, asserted |-> sub = (r.check \subseteq self.check)]

\* isSubset: std::includes(r.check, check)
isSubset(self, r) ==
    LET sub == roaring_bitmap_is_subset(self.roaring, r.roaring)
    IN  [ans |-> sub, asserted |-> sub = (self.check \subseteq r.check)]

\* the loop of intersect: TRUE when it leaves by the goto at an overlap
RECURSIVE intersect_overlap(_, _, _, _)
intersect_overlap(chk, rchk, it, r_it) ==
    IF it # it_end /\ r_it # it_end
        THEN IF it = r_it THEN TRUE
             ELSE IF it < r_it
                 THEN intersect_overlap(chk, rchk, set_next(chk, it), r_it)
             ELSE intersect_overlap(chk, rchk, it, set_next(rchk, r_it))
    ELSE FALSE

intersect(self, r) ==
    LET meet == roaring_bitmap_intersect(self.roaring, r.roaring)
    IN  [ans |-> meet,
         asserted |->
            IF check_empty(self, r) THEN meet = FALSE
            ELSE IF check_disjoint(self, r) THEN meet = FALSE
            ELSE IF intersect_overlap(self.check, r.check, set_begin(self.check),
                                      set_begin(r.check))
                THEN meet = TRUE
            ELSE meet = FALSE]

(***************************************************************************)
(* The union of many bitmaps: for every key held by an input, in ascending *)
(* order, the union of the containers the inputs hold under it.            *)
(***************************************************************************)
roaring_bitmap_or_many(number, x) ==
    LET keys == SortAscending(UNION {SeqRange(ra_keys(x[k])) : k \in 1..number})
    IN  [i \in 1..Len(keys) |->
            [key |-> keys[i],
             container |-> UNION {ra_get_container(x[k], keys[i]) : k \in 1..number}]]

(***************************************************************************)
(* Assignment, swap and does_std_set_match_roaring of class Roaring.       *)
(***************************************************************************)
(* The walk of roaring_iterate beside an iterator of check: the callback   *)
(* compares each value with *it++, and the walk is a match when every      *)
(* comparison held and it ends at check.end().  When the bitmap has more   *)
(* values than check the callback dereferences check.end(): ub.            *)
does_std_set_match_roaring(self) ==
    LET values == roaring_iterate(self.roaring)
        sorted == SortAscending(self.check)
        agree == {n \in 0..Len(values) :
                     \A j \in 1..n : j <= Len(sorted) /\ values[j] = sorted[j]}
        reached == CHOOSE n \in agree : \A k \in agree : k <= n
    IN  [ans |-> reached = Len(values) /\ Len(values) = Len(sorted),
         ub |-> reached = Len(sorted) /\ Len(values) > Len(sorted)]

\* operator=(Roaring &&r) that leaves *this as it was
move_assign_keeps(self, r) == self

\* operator=(Roaring &&r): *this after the assignment; r is left empty
move_assign(self, r) == Roaring(r.roaring, r.check)

\* the object a Roaring was moved out of: ra_init, and an emptied std::set
moved_from == Roaring(<<>>, {})

\* Roaring(Roaring &&r): the new object; r is left empty
move_construct(r) == Roaring(r.roaring, r.check)

\* isEmpty()
isEmpty(self) ==
    LET empty == roaring_bitmap_is_empty(self.roaring)
    IN  [ans |-> empty, asserted |-> empty = (self.check = {})]

\* addMany(n_args, vals)
addMany(self, n_args, vals) ==
    Roaring(roaring_bitmap_add_many(self.roaring, n_args, vals),
            self.check \cup SeqRange(vals))

(* fastunion(n, inputs).  x_is_null says that malloc returned NULL for the *)
(* array of n pointers and c_ans_is_null that roaring_bitmap_or_many       *)
(* returned NULL; either throws.  Otherwise the result is wrapped in a     *)
(* Roaring and compared with the inputs folded by operator|= into a copy   *)
(* of the first.                                                           *)
RECURSIVE fastunion_temp(_, _, _, _)
fastunion_temp(temp, n, inputs, i) ==
    IF i < n THEN fastunion_temp(or_assign(temp, inputs[i + 1]), n, inputs, i + 1)
    ELSE temp

fastunion(n, inputs, x_is_null, c_ans_is_null) ==
    IF x_is_null \/ c_ans_is_null
        THEN [thrown |-> TRUE, ans |-> NULL, asserted |-> TRUE]
    ELSE LET x == [k \in 1..n |-> inputs[k].roaring]
             result == RoaringOfStruct(roaring_bitmap_or_many(n, x))
         IN  [thrown |-> FALSE, ans |-> result,
              asserted |->
                 IF n = 0
                     THEN cardinality(result).asserted /\ cardinality(result).ans = 0
                     ELSE LET temp == fastunion_temp(RoaringCopy(inputs[1]), n, inputs, 1)
                          IN  equals(temp, result).asserted /\ equals(temp, result).ans]

(* operator=(const Roaring &r).  ra_clear empties the directory of *this   *)
(* before ra_copy reads r: when r is *this (aliased) ra_copy reads the     *)
(* emptied directory, and check = r.check leaves check as it is.  When     *)
(* ra_copy fails (is_ok false) the exception leaves before check is        *)
(* written.                                                                *)
copy_assign(self, r, aliased, is_ok) ==
    LET cleared == Roaring(<<>>, self.check)
        src == IF aliased THEN cleared ELSE r
    IN  IF ~is_ok THEN [thrown |-> TRUE, ans |-> cleared]
        ELSE [thrown |-> FALSE, ans |-> Roaring(src.roaring, src.check)]

\* Roaring(const Roaring &r), ra_copy failing or not
copy_construct(r, is_ok) ==
    IF ~is_ok THEN [thrown |-> TRUE, ans |-> NULL]
    ELSE [thrown |-> FALSE, ans |-> RoaringCopy(r)]

(* The binary operators when the C function may return NULL (r_is_null)    *)
(* and the copy constructor of the check build may fail (is_ok false).     *)
materialize(op, self, o, r_is_null, is_ok) ==
    IF r_is_null \/ ~is_ok THEN [thrown |-> TRUE, ans |-> NULL, asserted |-> TRUE]
    ELSE LET m == CASE op = "and" -> operator_and(self, o)
                    [] op = "andnot" -> operator_andnot(self, o)
                    [] op = "or" -> operator_or(self, o)
                    [] op = "xor" -> operator_xor(self, o)
         IN  [thrown |-> FALSE, ans |-> m.ans, asserted |-> m.asserted]

\* read and readSafe: r is what the deserializer returned, NULL or a bitmap
read(r, r_is_null) ==
    IF r_is_null THEN [thrown |-> TRUE, ans |-> NULL]
    ELSE [thrown |-> FALSE, ans |-> RoaringOfStruct(r)]

(***************************************************************************)
(* The portable byte format and its safe decoder.  A buffer is a sequence  *)
(* of fields, each counted as one unit of its length: the number of        *)
(* containers, then for each container its key and its cardinality minus   *)
(* one, then the bodies, each the offsets of a container in ascending      *)
(* order.                                                                  *)
(***************************************************************************)
roaring_bitmap_portable_serialize(r) ==
    <<Len(r)>>
    \o [j \in 1..(2 * Len(r)) |->
           IF j % 2 = 1 THEN r[(j + 1) \div 2].key
           ELSE Cardinality(r[j \div 2].container) - 1]
    \o [j \in 1..Len(roaring_iterate(r)) |-> low(roaring_iterate(r)[j])]

\* where the body of container i starts, given the descriptors before it
RECURSIVE body_offset(_, _)
body_offset(buf, i) ==
    IF i = 1 THEN 1 + 2 * buf[1]
    ELSE body_offset(buf, i - 1) + buf[2 * (i - 1) + 1] + 1

(* Reads no field beyond the first maxbytes: fails, returning NULL, when    *)
(* the header, the descriptors or a body would pass that bound, when the   *)
(* container count is more than the keys there are, when the keys do not   *)
(* ascend, and when the allocation of the bitmap fails (alloc_ok false).   *)
roaring_bitmap_portable_deserialize_safe(buf, maxbytes, alloc_ok) ==
    LET failed == [is_null |-> TRUE, r |-> <<>>]
    IN  IF maxbytes < 1 THEN failed
        ELSE LET size == buf[1]
             IN  IF size > 2^KeyBits \/ 1 + 2 * size > maxbytes THEN failed
                 ELSE IF \E i \in 1..(size - 1) : buf[2 * i] >= buf[2 * (i + 1)]
                     THEN failed
                 ELSE IF body_offset(buf, size + 1) > maxbytes THEN failed
                 ELSE IF ~alloc_ok THEN failed
                 ELSE [is_null |-> FALSE,
                       r |-> [i \in 1..size |->
                                 [key |-> buf[2 * i],
                                  container |->
                                      {buf[body_offset(buf, i) + k] :
                                           k \in 1..(buf[2 * i + 1] + 1)}]]]

\* throw std::runtime_error(what)
runtime_error(what) == [thrown |-> TRUE, what |-> what, ans |-> NULL]

\* readSafe(buf, maxbytes): a NULL from the decoder is thrown as a failed alloc
readSafe(buf, maxbytes, alloc_ok) ==
    LET r == roaring_bitmap_portable_deserialize_safe(buf, maxbytes, alloc_ok)
    IN  IF r.is_null THEN runtime_error("failed alloc while reading")
        ELSE [thrown |-> FALSE, what |-> "", ans |-> RoaringOfStruct(r.r)]

\* Roaring(const Roaring &r) with the message of its exception
copy_construct_what(r, is_ok) ==
    IF ~is_ok THEN runtime_error("failed memory alloc in constructor")
    ELSE [thrown |-> FALSE, what |-> "", ans |-> RoaringCopy(r)]

\* swap: *this and r after the two std::swap
swap(self, r) == [self |-> Roaring(r.roaring, r.check),
                  r |-> Roaring(self.roaring, self.check)]

\* ~Roaring(): the assert of the check build
destroy(self) == does_std_set_match_roaring(self).ans

(***************************************************************************)
(* The directory with its containers in their representations: an entry    *)
(* is a key, the container struct and slack, the number of elements the    *)
(* container has allocated beyond those it uses.  The three functions      *)
(* below change how the containers are held.                               *)
(***************************************************************************)
ra_entry(key, c, slack) == [key |-> key, container |-> c, slack |-> slack]

\* the directory as the sets of offsets its containers hold
ra_offsets(r) ==
    [i \in 1..Len(r) |->
        [key |-> r[i].key,
         container |-> {BlockLo(b) : b \in Offsets(r[i].container)}]]

\* the run container of an array or bitset without its last run
run_container_from_all_but_last(c) ==
    LET rs == RunsOfFrom(Offsets(c), 1, <<>>)
    IN  [kind |-> "run", n_runs |-> Len(rs) - 1, runs |-> SubSeq(rs, 1, Len(rs) - 1)]

\* the run container holding the offsets of an array or bitset
run_container_from(c) ==
    LET rs == RunsOfFrom(Offsets(c), 1, <<>>)
    IN  [kind |-> "run", n_runs |-> Len(rs), runs |-> rs]

(* A run container goes to the smallest of the three representations; an   *)
(* array or bitset becomes a run container when that is smaller.           *)
convert_run_optimize(c) ==
    IF c.kind = "run" THEN convert_run_to_efficient_container_and_free(c).ans
    ELSE LET as_run == run_container_from(c)
             size_as_run_container == 2 + 4 * as_run.n_runs
             size_now == IF c.kind = "array" THEN 2 * c.cardinality + 2
                         ELSE (ChunkSize \div 64) * 8
         IN  IF size_as_run_container < size_now THEN as_run ELSE c

\* a run container becomes an array or a bitset by its cardinality
convert_to_bitset_or_array_container(rc) ==
    IF run_container_cardinality(rc) <= DEFAULT_MAX_SIZE
        THEN array_container_from_run(rc)
        ELSE bitset_container_from_run(rc)

\* a converted container is allocated to its size
ra_replace(e, c) == IF c = e.container THEN e ELSE ra_entry(e.key, c, 0)

\* answer: whether the result holds a run container
roaring_bitmap_run_optimize(r) ==
    LET after == [i \in 1..Len(r) |->
                     ra_replace(r[i], convert_run_optimize(r[i].container))]
    IN  [r |-> after,
         answer |-> \E i \in 1..Len(after) : after[i].container.kind = "run"]

\* answer: whether a container was converted
roaring_bitmap_remove_run_compression(r) ==
    [r |-> [i \in 1..Len(r) |->
               IF r[i].container.kind = "run"
                   THEN ra_replace(r[i],
                            convert_to_bitset_or_array_container(r[i].container))
                   ELSE r[i]],
     answer |-> \E i \in 1..Len(r) : r[i].container.kind = "run"]

\* the bytes an entry's slack takes
RECURSIVE ra_slack_bytes(_, _)
ra_slack_bytes(r, i) ==
    IF i > Len(r) THEN 0
    ELSE r[i].slack * (IF r[i].container.kind = "run" THEN 4 ELSE 2)
             + ra_slack_bytes(r, i + 1)

\* answer: the bytes saved
roaring_bitmap_shrink_to_fit(r) ==
    [r |-> [i \in 1..Len(r) |-> [r[i] EXCEPT !.slack = 0]],
     answer |-> ra_slack_bytes(r, 1)]

(* removeRunCompression, runOptimize and shrinkToFit: the object after the *)
(* call and what the call returns; check is not touched.                   *)
removeRunCompression(self) ==
    LET m == roaring_bitmap_remove_run_compression(self.roaring)
    IN  [self |-> Roaring(m.r, self.check), ans |-> m.answer]

runOptimize(self) ==
    LET m == roaring_bitmap_run_optimize(self.roaring)
    IN  [self |-> Roaring(m.r, self.check), ans |-> m.answer]

shrinkToFit(self) ==
    LET m == roaring_bitmap_shrink_to_fit(self.roaring)
    IN  [self |-> Roaring(m.r, self.check), ans |-> m.answer]

(***************************************************************************)
(* Copy-on-write.  The container bodies live in a heap, each with a        *)
(* counter of the directory entries that hold it; an entry of a directory  *)
(* names its body.  A bitmap is its directory and its copy-on-write flag.  *)
(* A body held by more than one entry is cloned before it is written.      *)
(***************************************************************************)
\* the bodies the heap has room for
MaxBodies == 4

Bodies == 1..MaxBodies

NoBody == [container |-> {}, counter |-> 0]

\* the free body of lowest address
heap_new(h) ==
    CHOOSE b \in Bodies :
        /\ h[b].counter = 0
        /\ \A o \in Bodies : h[o].counter = 0 => b <= o

\* one owner less; the body is freed with its last owner
container_free(h, b) ==
    IF h[b].counter > 1 THEN [h EXCEPT ![b].counter = @ - 1]
    ELSE [h EXCEPT ![b] = NoBody]

RECURSIVE ra_clear(_, _, _)
ra_clear(h, ra, i) ==
    IF i > Len(ra) THEN h ELSE ra_clear(container_free(h, ra[i].body), ra, i + 1)

(* ra_copy: with copy_on_write the new directory names the bodies of the   *)
(* source, each with one owner more; without, each body is cloned.         *)
RECURSIVE ra_copy(_, _, _, _)
ra_copy(h, source, i, copy_on_write) ==
    IF i > Len(source) THEN [heap |-> h, ra |-> <<>>]
    ELSE LET e == source[i]
             b == IF copy_on_write THEN e.body ELSE heap_new(h)
             h1 == IF copy_on_write
                       THEN [h EXCEPT ![b].counter = @ + 1]
                       ELSE [h EXCEPT ![b] = [h[e.body] EXCEPT !.counter = 1]]
             rest == ra_copy(h1, source, i + 1, copy_on_write)
         IN  [heap |-> rest.heap,
              ra |-> <<[key |-> e.key, body |-> b]>> \o rest.ra]

\* entry i of ra gets a body of its own if its body has other owners
get_writable_copy_if_shared(h, ra, i) ==
    IF h[ra[i].body].counter > 1
        THEN LET b == heap_new(h)
             IN  [heap |-> [h EXCEPT ![ra[i].body].counter = @ - 1,
                                     ![b] = [h[ra[i].body] EXCEPT !.counter = 1]],
                  ra |-> [ra EXCEPT ![i].body = b]]
        ELSE [heap |-> h, ra |-> ra]

\* roaring_bitmap_add on a directory of bodies
shared_add(h, ra, x) ==
    LET i == ra_get_index(ra, high(x))
    IN  IF i = 0
            THEN LET b == heap_new(h)
                 IN  [heap |-> [h EXCEPT ![b] = [container |-> {low(x)},
                                                 counter |-> 1]],
                      ra |-> ra_insert_new_key_value_at(ra,
                                 Cardinality({j \in 1..Len(ra) : ra[j].key < high(x)}),
                                 [key |-> high(x), body |-> b])]
        ELSE LET w == get_writable_copy_if_shared(h, ra, i)
             IN  [heap |-> [w.heap EXCEPT ![w.ra[i].body].container = @ \cup {low(x)}],
                  ra |-> w.ra]

\* roaring_bitmap_remove on a directory of bodies
shared_remove(h, ra, x) ==
    LET i == ra_get_index(ra, high(x))
    IN  IF i = 0 THEN [heap |-> h, ra |-> ra]
        ELSE LET w == get_writable_copy_if_shared(h, ra, i)
                 b == w.ra[i].body
             IN  IF w.heap[b].container \ {low(x)} = {}
                     THEN [heap |-> container_free(w.heap, b),
                           ra |-> ra_remove_at_index(w.ra, i)]
                     ELSE [heap |-> [w.heap EXCEPT ![b].container = @ \ {low(x)}],
                           ra |-> w.ra]

\* the values a directory of bodies holds
shared_members(h, ra) ==
    UNION {{ra[i].key * ChunkSize + v : v \in h[ra[i].body].container} :
              i \in 1..Len(ra)}

(* The wrapper object over the heap: its directory, its flag and check.    *)
(* Each method gives the heap and the object after the call.               *)
RoaringShared(ra, copy_on_write, chk) ==
    [roaring |-> ra, copy_on_write |-> copy_on_write, check |-> chk]

\* the copy constructor leaving the flag of the copy unset
copy_construct_unflagged(h, r) ==
    LET c == ra_copy(h, r.roaring, 1, r.copy_on_write)
    IN  [heap |-> c.heap, self |-> RoaringShared(c.ra, FALSE, r.check)]

\* Roaring(const Roaring &r)
copy_construct_shared(h, r) ==
    LET c == ra_copy(h, r.roaring, 1, r.copy_on_write)
    IN  [heap |-> c.heap, self |-> RoaringShared(c.ra, r.copy_on_write, r.check)]

\* operator=(const Roaring &r), r another object
copy_assign_shared(h, self, r) ==
    LET cleared == ra_clear(h, self.roaring, 1)
        c == ra_copy(cleared, r.roaring, 1, r.copy_on_write)
    IN  [heap |-> c.heap, self |-> RoaringShared(c.ra, r.copy_on_write, r.check)]

\* add(x) and remove(x)
add_shared(h, self, x) ==
    LET m == shared_add(h, self.roaring, x)
    IN  [heap |-> m.heap,
         self |-> [self EXCEPT !.roaring = m.ra, !.check = @ \cup {x}]]

remove_shared(h, self, x) ==
    LET m == shared_remove(h, self.roaring, x)
    IN  [heap |-> m.heap,
         self |-> [self EXCEPT !.roaring = m.ra, !.check = @ \ {x}]]

setCopyOnWrite(self, val) == [self EXCEPT !.copy_on_write = val]

getCopyOnWrite(self) == self.copy_on_write

(***************************************************************************)
(* State.  call is the last call made and its arguments as they were on    *)
(* entry; ans and result_type are what a non-lazy xor returned and wrote   *)
(* (for a lazy xor ans is dst after the call and returnval the boolean     *)
(* returned); c1 and type1 are the slot the in-place functions work on;    *)
(* ub is set once a call has read a container through the wrong struct.    *)
(* roaring and check are the two members of the Roaring object the fuzz    *)
(* test drives (the C bitmap and its std::set mirror), element is the      *)
(* out-parameter of select, inplace the local of the binary operators and  *)
(* asserted says that every assertion executed so far held.  roars is the  *)
(* pool of Roaring objects of fuzz_test and thrown says that the last call *)
(* left by an exception.                                                   *)
(***************************************************************************)
VARIABLES call, ans, result_type, returnval, c1, type1, ub,
          roaring, check, element, inplace, asserted,
          roars, thrown, typed, heap, objs

containerVars == <<ans, result_type, c1, type1, ub>>
roaringVars == <<roaring, check, element, inplace, asserted>>
poolVars == <<roars, thrown>>
heapVars == <<typed, heap, objs>>
vars == <<call, returnval, containerVars, roaringVars, poolVars, heapVars>>

NoCall == [fn |-> "none"]

\* the pool: one object for each of out, left and right of a step of
\* fuzz_test, so that a step can pick them all different or any of them the
\* same
Pool == {1, 2, 3}

\* the two objects of which one is made a copy of the other
CopyObjects == {1, 2}

Init ==
    /\ call = NoCall
    /\ ans = NULL
    /\ result_type = 0
    /\ returnval = FALSE
    /\ c1 = NULL
    /\ type1 = 0
    /\ ub = FALSE
    /\ roaring = <<>>
    /\ check = {}
    /\ element = 0
    /\ inplace = NULL
    /\ asserted = TRUE
    /\ roars = [i \in Pool |-> Roaring(<<>>, {})]
    /\ thrown = FALSE
    /\ typed = <<>>
    /\ heap = [b \in Bodies |-> NoBody]
    /\ objs = [i \in CopyObjects |-> RoaringShared(<<>>, FALSE, {})]

(***************************************************************************)
(* The six non-lazy xor functions, each called on a pair of valid          *)
(* containers with any tag already in *result_type.                        *)
(***************************************************************************)
Called(fn, s1, s2, rt) ==
    [fn |-> fn, src_1 |-> s1, src_2 |-> s2, result_type_in |-> rt]

\* a call is made on fresh arguments: one call, then its result is looked at
Returns(r) ==
    /\ ans' = r.ans
    /\ result_type' = r.result_type
    /\ UNCHANGED <<returnval, c1, type1, ub, roaringVars, poolVars, heapVars>>

CallArrayBitsetXor ==
    /\ call = NoCall
    /\ \E s1 \in Arrays, s2 \in Bitsets, rt \in TypeTags :
        /\ call' = Called("array_bitset_container_xor", s1, s2, rt)
        /\ Returns(array_bitset_container_xor(s1, s2, rt))

CallBitsetBitsetXor ==
    /\ call = NoCall
    /\ \E s1 \in Bitsets, s2 \in Bitsets, rt \in TypeTags :
        /\ call' = Called("bitset_bitset_container_xor", s1, s2, rt)
        /\ Returns(bitset_bitset_container_xor(s1, s2, rt))

CallRunBitsetXor ==
    /\ call = NoCall
    /\ \E s1 \in Runs, s2 \in Bitsets, rt \in TypeTags :
        /\ call' = Called("run_bitset_container_xor", s1, s2, rt)
        /\ Returns(run_bitset_container_xor(s1, s2, rt))

CallArrayRunXor ==
    /\ call = NoCall
    /\ \E s1 \in Arrays, s2 \in Runs, rt \in TypeTags :
        /\ call' = Called("array_run_container_xor", s1, s2, rt)
        /\ Returns(array_run_container_xor(s1, s2, rt))

CallArrayArrayXor ==
    /\ call = NoCall
    /\ \E s1 \in Arrays, s2 \in Arrays, rt \in TypeTags :
        /\ call' = Called("array_array_container_xor", s1, s2, rt)
        /\ Returns(array_array_container_xor(s1, s2, rt))

CallRunRunXor ==
    /\ call = NoCall
    /\ \E s1 \in Runs, s2 \in Runs, rt \in TypeTags :
        /\ call' = Called("run_run_container_xor", s1, s2, rt)
        /\ Returns(run_run_container_xor(s1, s2, rt))

(***************************************************************************)
(* The nine in-place functions, each called on a fresh slot whose tag      *)
(* names its container.  call.src_1 and call.result_type_in keep the slot  *)
(* as it was on entry.                                                     *)
(***************************************************************************)
WritesBack(s) ==
    /\ c1' = s.c1
    /\ type1' = s.type1
    /\ UNCHANGED <<ans, result_type, returnval, ub, roaringVars, poolVars,
                   heapVars>>

CallBitsetArrayIxor ==
    /\ call = NoCall
    /\ \E s1 \in Bitsets, s2 \in Arrays :
        /\ call' = Called("bitset_array_container_ixor", s1, s2, TypeOf(s1))
        /\ WritesBack(bitset_array_container_ixor(s1, TypeOf(s1), s2))

CallBitsetBitsetIxor ==
    /\ call = NoCall
    /\ \E s1 \in Bitsets, s2 \in Bitsets :
        /\ call' = Called("bitset_bitset_container_ixor", s1, s2, TypeOf(s1))
        /\ WritesBack(bitset_bitset_container_ixor(s1, TypeOf(s1), s2))

CallArrayBitsetIxor ==
    /\ call = NoCall
    /\ \E s1 \in Arrays, s2 \in Bitsets :
        /\ call' = Called("array_bitset_container_ixor", s1, s2, TypeOf(s1))
        /\ WritesBack(array_bitset_container_ixor(s1, TypeOf(s1), s2))

CallRunBitsetIxor ==
    /\ call = NoCall
    /\ \E s1 \in Runs, s2 \in Bitsets :
        /\ call' = Called("run_bitset_container_ixor", s1, s2, TypeOf(s1))
        /\ WritesBack(run_bitset_container_ixor(s1, TypeOf(s1), s2))

CallBitsetRunIxor ==
    /\ call = NoCall
    /\ \E s1 \in Bitsets, s2 \in Runs :
        /\ call' = Called("bitset_run_container_ixor", s1, s2, TypeOf(s1))
        /\ WritesBack(bitset_run_container_ixor(s1, TypeOf(s1), s2))

CallArrayRunIxor ==
    /\ call = NoCall
    /\ \E s1 \in Arrays, s2 \in Runs :
        /\ call' = Called("array_run_container_ixor", s1, s2, TypeOf(s1))
        /\ WritesBack(array_run_container_ixor(s1, TypeOf(s1), s2))

CallRunArrayIxor ==
    /\ call = NoCall
    /\ \E s1 \in Runs, s2 \in Arrays :
        /\ call' = Called("run_array_container_ixor", s1, s2, TypeOf(s1))
        /\ WritesBack(run_array_container_ixor(s1, TypeOf(s1), s2))

CallArrayArrayIxor ==
    /\ call = NoCall
    /\ \E s1 \in Arrays, s2 \in Arrays :
        /\ call' = Called("array_array_container_ixor", s1, s2, TypeOf(s1))
        /\ WritesBack(array_array_container_ixor(s1, TypeOf(s1), s2))

CallRunRunIxor ==
    /\ call = NoCall
    /\ \E s1 \in Runs, s2 \in Runs :
        /\ call' = Called("run_run_container_ixor", s1, s2, TypeOf(s1))
        /\ WritesBack(run_run_container_ixor(s1, TypeOf(s1), s2))

(***************************************************************************)
(* The lazy functions.  The two that write into a caller's bitset are      *)
(* called with dst either src_2 itself or a separate bitset that already   *)
(* holds something; array_array_container_lazy_xor allocates *dst, and the *)
(* allocation may fail.                                                    *)
(***************************************************************************)
\* what a separate dst holds before the call: nothing, or every offset
DstBefore == {BitsetC({}), BitsetC(Blocks)}

CalledLazy(fn, s1, s2, d, aliased) ==
    [fn |-> fn, src_1 |-> s1, src_2 |-> s2, dst |-> d, aliased |-> aliased]

WritesDst(d) ==
    /\ ans' = d
    /\ UNCHANGED <<result_type, returnval, c1, type1, ub, roaringVars,
                   poolVars, heapVars>>

CallArrayBitsetLazyXor ==
    /\ call = NoCall
    /\ \E s1 \in Arrays, s2 \in Bitsets :
        \/ /\ call' = CalledLazy("array_bitset_container_lazy_xor",
                                 s1, s2, s2, TRUE)
           /\ WritesDst(array_bitset_container_lazy_xor(s1, s2, s2, TRUE))
        \/ \E d \in DstBefore :
           /\ call' = CalledLazy("array_bitset_container_lazy_xor",
                                 s1, s2, d, FALSE)
           /\ WritesDst(array_bitset_container_lazy_xor(s1, s2, d, FALSE))

CallRunBitsetLazyXor ==
    /\ call = NoCall
    /\ \E s1 \in Runs, s2 \in Bitsets :
        \/ /\ call' = CalledLazy("run_bitset_container_lazy_xor",
                                 s1, s2, s2, TRUE)
           /\ WritesDst(run_bitset_container_lazy_xor(s1, s2, s2, TRUE))
        \/ \E d \in DstBefore :
           /\ call' = CalledLazy("run_bitset_container_lazy_xor",
                                 s1, s2, d, FALSE)
           /\ WritesDst(run_bitset_container_lazy_xor(s1, s2, d, FALSE))

CallArrayArrayLazyXor ==
    /\ call = NoCall
    /\ \E s1 \in Arrays, s2 \in Arrays, alloc_ok \in BOOLEAN :
        LET r == array_array_container_lazy_xor(s1, s2, alloc_ok)
        IN  /\ call' = [fn |-> "array_array_container_lazy_xor",
                        src_1 |-> s1, src_2 |-> s2, alloc_ok |-> alloc_ok]
            /\ ans' = r.dst
            /\ returnval' = r.returnval
            /\ UNCHANGED <<result_type, c1, type1, ub, roaringVars, poolVars,
                           heapVars>>

(***************************************************************************)
(* The four binary operators, each called once on two bitmaps over the     *)
(* window.                                                                 *)
(***************************************************************************)
Roarings ==
    {RoaringOfData(Cardinality(S), SortAscending(S)) : S \in SUBSET Window}

ReturnsRoaring(fn, self, o, m) ==
    /\ call' = [fn |-> fn, self |-> self, o |-> o]
    /\ ans' = m.ans
    /\ inplace' = m.inplace
    /\ asserted' = m.asserted
    /\ UNCHANGED <<returnval, result_type, c1, type1, ub, roaring, check,
                   element, poolVars, heapVars>>

CallOperatorAnd ==
    /\ call = NoCall
    /\ \E self \in Roarings, o \in Roarings :
        ReturnsRoaring("operator&", self, o, operator_and(self, o))

CallOperatorAndnot ==
    /\ call = NoCall
    /\ \E self \in Roarings, o \in Roarings :
        ReturnsRoaring("operator-", self, o, operator_andnot(self, o))

CallOperatorOr ==
    /\ call = NoCall
    /\ \E self \in Roarings, o \in Roarings :
        ReturnsRoaring("operator|", self, o, operator_or(self, o))

CallOperatorXor ==
    /\ call = NoCall
    /\ \E self \in Roarings, o \in Roarings :
        ReturnsRoaring("operator^", self, o, operator_xor(self, o))

Next ==
    \/ CallArrayBitsetXor
    \/ CallBitsetBitsetXor
    \/ CallRunBitsetXor
    \/ CallArrayRunXor
    \/ CallArrayArrayXor
    \/ CallRunRunXor
    \/ CallBitsetArrayIxor
    \/ CallBitsetBitsetIxor
    \/ CallArrayBitsetIxor
    \/ CallRunBitsetIxor
    \/ CallBitsetRunIxor
    \/ CallArrayRunIxor
    \/ CallRunArrayIxor
    \/ CallArrayArrayIxor
    \/ CallRunRunIxor
    \/ CallArrayBitsetLazyXor
    \/ CallRunBitsetLazyXor
    \/ CallArrayArrayLazyXor
    \/ CallOperatorAnd
    \/ CallOperatorAndnot
    \/ CallOperatorOr
    \/ CallOperatorXor

Spec == Init /\ [][Next]_vars

XorFunctions ==
    {"array_bitset_container_xor", "bitset_bitset_container_xor",
     "run_bitset_container_xor", "array_run_container_xor",
     "array_array_container_xor", "run_run_container_xor"}

IxorFunctions ==
    {"bitset_array_container_ixor", "bitset_bitset_container_ixor",
     "array_bitset_container_ixor", "run_bitset_container_ixor",
     "bitset_run_container_ixor", "array_run_container_ixor",
     "run_array_container_ixor", "array_array_container_ixor",
     "run_run_container_ixor"}

LazyBitsetFunctions ==
    {"array_bitset_container_lazy_xor", "run_bitset_container_lazy_xor"}

\* the container a call produced
Out == IF call.fn \in IxorFunctions THEN c1 ELSE ans

\* the offsets that are in exactly one of the two arguments of the call
Expected == SymDiff(Offsets(call.src_1), Offsets(call.src_2))

(***************************************************************************)
(* A slot that lives on: it is created holding a valid container with its  *)
(* true tag, and then any of the in-place functions is called on it, each  *)
(* chosen by the tag the slot carries (the caller's dispatch, which the    *)
(* entry assertion of the function repeats).  A function entered on a slot *)
(* whose tag does not name the container casts the container to the wrong  *)
(* struct: undefined behaviour, after which the slot may hold anything.    *)
(***************************************************************************)
Containers == Arrays \cup Bitsets \cup Runs

NewSlot ==
    /\ call = NoCall
    /\ \E c \in Containers :
        /\ c1' = c
        /\ type1' = TypeOf(c)
    /\ call' = [fn |-> "new"]
    /\ UNCHANGED <<ans, result_type, returnval, ub, roaringVars, poolVars,
                   heapVars>>

SlotCall(fn, expected, after) ==
    /\ call # NoCall
    /\ ~ub
    /\ type1 = expected
    /\ call' = [fn |-> fn]
    /\ IF TypeOf(c1) = type1
           THEN /\ c1' = after.c1
                /\ type1' = after.type1
                /\ ub' = FALSE
           ELSE /\ c1' \in Containers
                /\ type1' \in TypeTags
                /\ ub' = TRUE
    /\ UNCHANGED <<ans, result_type, returnval, roaringVars, poolVars,
                   heapVars>>

SlotBitsetArrayIxor ==
    \E s2 \in Arrays :
        SlotCall("bitset_array_container_ixor", BITSET_CONTAINER_TYPE,
                 bitset_array_container_ixor(c1, type1, s2))

SlotBitsetBitsetIxor ==
    \E s2 \in Bitsets :
        SlotCall("bitset_bitset_container_ixor", BITSET_CONTAINER_TYPE,
                 bitset_bitset_container_ixor(c1, type1, s2))

SlotArrayBitsetIxor ==
    \E s2 \in Bitsets :
        SlotCall("array_bitset_container_ixor", ARRAY_CONTAINER_TYPE,
                 array_bitset_container_ixor(c1, type1, s2))

SlotRunBitsetIxor ==
    \E s2 \in Bitsets :
        SlotCall("run_bitset_container_ixor", RUN_CONTAINER_TYPE,
                 run_bitset_container_ixor(c1, type1, s2))

SlotBitsetRunIxor ==
    \E s2 \in Runs :
        SlotCall("bitset_run_container_ixor", BITSET_CONTAINER_TYPE,
                 bitset_run_container_ixor(c1, type1, s2))

SlotArrayRunIxor ==
    \E s2 \in Runs :
        SlotCall("array_run_container_ixor", ARRAY_CONTAINER_TYPE,
                 array_run_container_ixor(c1, type1, s2))

SlotRunArrayIxor ==
    \E s2 \in Arrays :
        SlotCall("run_array_container_ixor", RUN_CONTAINER_TYPE,
                 run_array_container_ixor(c1, type1, s2))

SlotArrayArrayIxor ==
    \E s2 \in Arrays :
        SlotCall("array_array_container_ixor", ARRAY_CONTAINER_TYPE,
                 array_array_container_ixor(c1, type1, s2))

SlotRunRunIxor ==
    \E s2 \in Runs :
        SlotCall("run_run_container_ixor", RUN_CONTAINER_TYPE,
                 run_run_container_ixor(c1, type1, s2))

NextSlot ==
    \/ NewSlot
    \/ SlotBitsetArrayIxor
    \/ SlotBitsetBitsetIxor
    \/ SlotArrayBitsetIxor
    \/ SlotRunBitsetIxor
    \/ SlotBitsetRunIxor
    \/ SlotArrayRunIxor
    \/ SlotRunArrayIxor
    \/ SlotArrayArrayIxor
    \/ SlotRunRunIxor

SpecSlot == Init /\ [][NextSlot]_vars

(***************************************************************************)
(* One Roaring object driven as make_random_bitset and fuzz_test drive it: *)
(* add, addRange, remove, flip and the in-place set operators change it,   *)
(* select and rank query it.  A failed assertion ends the program.  The    *)
(* out-parameter of select is a local of the caller, declared anew (here   *)
(* as 0) before each select and gone after the next call.                  *)
(***************************************************************************)
This == Roaring(roaring, check)

\* exclusive ends of a range over the window
RangeEnds == (ChunkSize - Half)..(ChunkSize + Half)

\* ranks asked of select: up to one past the largest cardinality
Ranks == 0..(2 * Half + 1)

\* values asked of rank: the window, and one value on each side of it
RankArgs == Window \cup {0, 2 * ChunkSize - 1}

Mutates(fn, after) ==
    /\ asserted
    /\ call' = [fn |-> fn]
    /\ roaring' = after.roaring
    /\ check' = after.check
    /\ element' = 0
    /\ UNCHANGED <<returnval, inplace, asserted, containerVars, poolVars,
                   heapVars>>

DoAdd == \E x \in Window : Mutates("add", add(This, x))

DoAddRange ==
    \E x \in Window, y \in RangeEnds : Mutates("addRange", addRange(This, x, y))

DoRemove == \E x \in Window : Mutates("remove", remove(This, x))

DoFlip ==
    \E range_start \in Window, range_end \in RangeEnds :
        Mutates("flip", flip(This, range_start, range_end))

DoAndAssign == \E o \in Roarings : Mutates("operator&=", and_assign(This, o))

DoAndnotAssign == \E o \in Roarings : Mutates("operator-=", andnot_assign(This, o))

DoOrAssign == \E o \in Roarings : Mutates("operator|=", or_assign(This, o))

DoXorAssign == \E o \in Roarings : Mutates("operator^=", xor_assign(This, o))

DoSelect ==
    /\ asserted
    /\ \E rnk \in Ranks :
        LET s == select(This, rnk, 0)
        IN  /\ call' = [fn |-> "select", rnk |-> rnk, self |-> This]
            /\ returnval' = s.ans
            /\ element' = s.element
            /\ asserted' = s.asserted
    /\ UNCHANGED <<roaring, check, inplace, containerVars, poolVars, heapVars>>

DoRank ==
    /\ asserted
    /\ \E x \in RankArgs :
        LET k == rank(This, x)
        IN  /\ call' = [fn |-> "rank", x |-> x]
            /\ returnval' = k.ans
            /\ asserted' = k.asserted
    /\ element' = 0
    /\ UNCHANGED <<roaring, check, inplace, containerVars, poolVars, heapVars>>

NextRoaring ==
    \/ DoAdd
    \/ DoAddRange
    \/ DoRemove
    \/ DoFlip
    \/ DoAndAssign
    \/ DoAndnotAssign
    \/ DoOrAssign
    \/ DoXorAssign
    \/ DoSelect
    \/ DoRank

SpecRoaring == Init /\ [][NextRoaring]_vars

\* the values a C bitmap holds
Members(r) ==
    UNION {{r[i].key * ChunkSize + v : v \in r[i].container} : i \in 1..Len(r)}

(***************************************************************************)
(* fuzz_test: a pool of Roaring objects; each step picks out, left and     *)
(* right from the pool, which may be the same objects, computes an         *)
(* operator of left and right, move-assigns the result to out and asserts  *)
(* what the test asserts.  An object that has become empty is replaced by  *)
(* a new random one.  The values are those of a window of the pool.  A     *)
(* failed assertion ends the program.                                      *)
(***************************************************************************)
(* The ways a step picks <<out, left, right>>, up to the names of the      *)
(* objects: all the same, two of them the same, all different.             *)
Picks == {<<1, 1, 1>>, <<1, 1, 2>>, <<1, 2, 1>>, <<1, 2, 2>>, <<1, 2, 3>>}

\* how many values of the pool lie below the chunk boundary
PoolBelow == 2

PoolWindow == (ChunkSize - PoolBelow)..ChunkSize

PoolRoarings ==
    {RoaringOfData(Cardinality(S), SortAscending(S)) : S \in SUBSET PoolWindow}

FuzzStep(fn, out, left, right, card, after, held) ==
    /\ call' = [fn |-> fn, out |-> out, left |-> left, right |-> right,
                before |-> roars]
    /\ returnval' = card
    /\ roars' = after
    /\ asserted' = (held /\ does_std_set_match_roaring(after[out]).ans)
    /\ thrown' = FALSE
    /\ UNCHANGED <<containerVars, roaring, check, element, inplace, heapVars>>

\* case 0: AND
FuzzAnd ==
    /\ call = NoCall
    /\ asserted
    /\ \E pick \in Picks :
        LET out == pick[1]
            left == pick[2]
            right == pick[3]
            card == and_cardinality(roars[left], roars[right])
            back == and_cardinality(roars[right], roars[left])
            m == operator_and(roars[left], roars[right])
            after == [roars EXCEPT ![out] = move_assign(@, m.ans)]
        IN  FuzzStep("AND", out, left, right, card.ans, after,
                /\ card.asserted /\ back.asserted /\ card.ans = back.ans
                /\ m.asserted
                /\ cardinality(after[out]).asserted
                /\ card.ans = cardinality(after[out]).ans
                /\ out # left =>
                      /\ isSubset(after[out], after[left]).asserted
                      /\ isSubset(after[out], after[left]).ans
                /\ out # right =>
                      /\ isSubset(after[out], after[right]).asserted
                      /\ isSubset(after[out], after[right]).ans)

\* case 1: ANDNOT
FuzzAndnot ==
    /\ call = NoCall
    /\ asserted
    /\ \E pick \in Picks :
        LET out == pick[1]
            left == pick[2]
            right == pick[3]
            card == andnot_cardinality(roars[left], roars[right])
            m == operator_andnot(roars[left], roars[right])
            after == [roars EXCEPT ![out] = move_assign(@, m.ans)]
        IN  FuzzStep("ANDNOT", out, left, right, card.ans, after,
                /\ card.asserted
                /\ m.asserted
                /\ cardinality(after[out]).asserted
                /\ card.ans = cardinality(after[out]).ans
                /\ (out # left /\ out # right) =>
                      /\ cardinality(after[left]).asserted
                      /\ and_cardinality(after[right], after[left]).asserted
                      /\ card.ans = cardinality(after[left]).ans
                                    - and_cardinality(after[right], after[left]).ans
                /\ out # left =>
                      /\ isSubset(after[out], after[left]).asserted
                      /\ isSubset(after[out], after[left]).ans
                /\ out # right =>
                      /\ intersect(after[out], after[right]).asserted
                      /\ ~intersect(after[out], after[right]).ans)

\* case 2: OR
FuzzOr ==
    /\ call = NoCall
    /\ asserted
    /\ \E pick \in Picks :
        LET out == pick[1]
            left == pick[2]
            right == pick[3]
            card == or_cardinality(roars[left], roars[right])
            back == or_cardinality(roars[right], roars[left])
            m == operator_or(roars[left], roars[right])
            after == [roars EXCEPT ![out] = move_assign(@, m.ans)]
        IN  FuzzStep("OR", out, left, right, card.ans, after,
                /\ card.asserted /\ back.asserted /\ card.ans = back.ans
                /\ m.asserted
                /\ cardinality(after[out]).asserted
                /\ card.ans = cardinality(after[out]).ans
                /\ out # left =>
                      /\ isSubset(after[left], after[out]).asserted
                      /\ isSubset(after[left], after[out]).ans
                /\ out # right =>
                      /\ isSubset(after[right], after[out]).asserted
                      /\ isSubset(after[right], after[out]).ans)

\* case 3: XOR
FuzzXor ==
    /\ call = NoCall
    /\ asserted
    /\ \E pick \in Picks :
        LET out == pick[1]
            left == pick[2]
            right == pick[3]
            card == xor_cardinality(roars[left], roars[right])
            back == xor_cardinality(roars[right], roars[left])
            m == operator_xor(roars[left], roars[right])
            after == [roars EXCEPT ![out] = move_assign(@, m.ans)]
            both == operator_and(after[left], after[right])
        IN  FuzzStep("XOR", out, left, right, card.ans, after,
                /\ card.asserted /\ back.asserted /\ card.ans = back.ans
                /\ m.asserted
                /\ cardinality(after[out]).asserted
                /\ card.ans = cardinality(after[out]).ans
                /\ (out # left /\ out # right) =>
                      /\ both.asserted
                      /\ intersect(after[out], both.ans).asserted
                      /\ ~intersect(after[out], both.ans).ans
                      /\ cardinality(after[left]).asserted
                      /\ cardinality(after[right]).asserted
                      /\ and_cardinality(after[left], after[right]).asserted
                      /\ card.ans = cardinality(after[left]).ans
                                    + cardinality(after[right]).ans
                                    - 2 * and_cardinality(after[left], after[right]).ans)

\* case 4: FASTUNION of out, left and right, assigned to out
FuzzFastunion ==
    /\ call = NoCall
    /\ asserted
    /\ \E pick \in Picks :
        LET out == pick[1]
            left == pick[2]
            right == pick[3]
            u == fastunion(3, <<roars[out], roars[left], roars[right]>>,
                           FALSE, FALSE)
            after == [roars EXCEPT ![out] = move_assign(@, u.ans)]
        IN  FuzzStep("FASTUNION", out, left, right, 0, after, u.asserted)

\* case 5: FLIP of out, after a select and a rank when out is not empty
FuzzFlip ==
    /\ call = NoCall
    /\ asserted
    /\ \E out \in {1}, range_start \in PoolWindow,
          range_end \in PoolWindow \cup {ChunkSize + 1} :
        LET card == cardinality(roars[out])
            after == [roars EXCEPT ![out] = flip(@, range_start, range_end)]
        IN  FuzzStep("FLIP", out, out, out, card.ans, after,
                /\ card.asserted
                /\ card.ans # 0 =>
                      \A rnk \in 0..(card.ans - 1) :
                          LET s == select(roars[out], rnk, 0)
                          IN  /\ s.asserted /\ s.ans
                              /\ rank(roars[out], s.element).asserted
                              /\ rank(roars[out], s.element).ans = rnk + 1)

\* an empty object is replaced by what make_random_bitset returns
FuzzReseed ==
    /\ call = NoCall
    /\ asserted
    /\ \E out \in Pool, r \in PoolRoarings :
        /\ cardinality(roars[out]).ans = 0
        /\ r.check # {}
        /\ roars' = [roars EXCEPT ![out] = move_assign(@, r)]
        /\ asserted' = cardinality(roars[out]).asserted
    /\ UNCHANGED <<call, returnval, thrown, containerVars,
                   roaring, check, element, inplace, heapVars>>

\* the end of a step: its locals are gone
FuzzLoop ==
    /\ call # NoCall
    /\ asserted
    /\ call' = NoCall
    /\ returnval' = FALSE
    /\ thrown' = FALSE
    /\ UNCHANGED <<roars, asserted, containerVars, roaring, check, element,
                   inplace, heapVars>>

NextPool ==
    \/ FuzzAnd
    \/ FuzzAndnot
    \/ FuzzOr
    \/ FuzzXor
    \/ FuzzFastunion
    \/ FuzzFlip
    \/ FuzzReseed
    \/ FuzzLoop

SpecPool == Init /\ [][NextPool]_vars

(***************************************************************************)
(* The wrapper's operations applied one after another to the objects of    *)
(* the pool.  A step names the objects it works on, which may be the same  *)
(* object, and whether an allocation made on the way fails.                *)
(***************************************************************************)
\* the objects the operations are applied to
Objects == {1, 2}

\* the most inputs given to fastunion
MaxInputs == 2

WrapperStep(fn, out, after, held, exc, failed) ==
    /\ call' = [fn |-> fn, out |-> out, before |-> roars, failed |-> failed]
    /\ roars' = after
    /\ asserted' = held
    /\ thrown' = exc
    /\ returnval' = FALSE
    /\ UNCHANGED <<containerVars, roaring, check, element, inplace, heapVars>>

\* out is destroyed and constructed again, empty or from a list of values
StepConstruct ==
    /\ call = NoCall
    /\ asserted
    /\ \E out \in Objects, S \in SUBSET PoolWindow :
        WrapperStep("construct", out,
                    [roars EXCEPT ![out] = RoaringOfData(Cardinality(S),
                                                         SortAscending(S))],
                    destroy(roars[out]), FALSE, FALSE)

\* add, remove, addRange, flip and addMany on out
StepMutate ==
    /\ call = NoCall
    /\ asserted
    /\ \E out \in Objects, x \in PoolWindow, y \in PoolWindow \cup {ChunkSize + 1} :
       \E after \in {add(roars[out], x), remove(roars[out], x),
                     addRange(roars[out], x, y), flip(roars[out], x, y),
                     addMany(roars[out], 2, <<y - 1, x>>)} :
        WrapperStep("mutate", out, [roars EXCEPT ![out] = after],
                    TRUE, FALSE, FALSE)

\* out op= r, r another object
StepInplace ==
    /\ call = NoCall
    /\ asserted
    /\ \E out \in Objects : \E r \in Objects \ {out} :
       \E after \in {and_assign(roars[out], roars[r]),
                     andnot_assign(roars[out], roars[r]),
                     or_assign(roars[out], roars[r]),
                     xor_assign(roars[out], roars[r])} :
        WrapperStep("inplace", out, [roars EXCEPT ![out] = after],
                    TRUE, FALSE, FALSE)

(* out = r by the copy assignment, r any object, out included; ra_copy     *)
(* can fail when it has containers to copy.                                *)
StepCopyAssign ==
    /\ call = NoCall
    /\ asserted
    /\ \E out \in Objects, r \in Objects, is_ok \in BOOLEAN :
        /\ ~is_ok => out # r /\ roars[r].roaring # <<>>
        /\ LET a == copy_assign(roars[out], roars[r], out = r, is_ok)
           IN  WrapperStep("copy_assign", out, [roars EXCEPT ![out] = a.ans],
                           TRUE, a.thrown, ~is_ok)

\* a copy of r is constructed and destroyed
StepCopyConstruct ==
    /\ call = NoCall
    /\ asserted
    /\ \E r \in Objects, is_ok \in BOOLEAN :
        /\ ~is_ok => roars[r].roaring # <<>>
        /\ LET a == copy_construct(roars[r], is_ok)
           IN  WrapperStep("copy_construct", r, roars,
                           a.thrown \/ destroy(a.ans), a.thrown, ~is_ok)

\* out = std::move(r), r another object
StepMoveAssign ==
    /\ call = NoCall
    /\ asserted
    /\ \E out \in Objects : \E r \in Objects \ {out} :
        WrapperStep("move_assign", out,
                    [roars EXCEPT ![out] = move_assign(@, roars[r]),
                                  ![r] = moved_from],
                    TRUE, FALSE, FALSE)

StepSwap ==
    /\ call = NoCall
    /\ asserted
    /\ \E out \in Objects, r \in Objects :
        LET s == swap(roars[out], roars[r])
        IN  WrapperStep("swap", out,
                        IF out = r THEN roars
                        ELSE [roars EXCEPT ![out] = s.self, ![r] = s.r],
                        TRUE, FALSE, FALSE)

\* out = left op right, any of the three the same object
StepMaterialize ==
    /\ call = NoCall
    /\ asserted
    /\ \E out \in Objects, left \in Objects, right \in Objects,
          op \in {"and", "andnot", "or", "xor"},
          r_is_null \in BOOLEAN, is_ok \in BOOLEAN :
        /\ ~(r_is_null /\ ~is_ok)
        /\ ~is_ok => roars[left].roaring # <<>>
        /\ LET m == materialize(op, roars[left], roars[right], r_is_null, is_ok)
           IN  WrapperStep("materialize", out,
                           IF m.thrown THEN roars
                           ELSE [roars EXCEPT ![out] = move_assign(@, m.ans)],
                           m.asserted, m.thrown, r_is_null \/ ~is_ok)

\* out = Roaring::read(buf): the deserializer returns NULL or a bitmap
StepRead ==
    /\ call = NoCall
    /\ asserted
    /\ \E out \in Objects, b \in PoolRoarings, r_is_null \in BOOLEAN :
        LET d == read(b.roaring, r_is_null)
        IN  WrapperStep("read", out,
                        IF d.thrown THEN roars
                        ELSE [roars EXCEPT ![out] = move_assign(@, d.ans)],
                        TRUE, d.thrown, d.thrown)

(* out = Roaring::fastunion(n, inputs), any inputs the same object.        *)
(* malloc of the n pointers returns NULL when memory is short (x_fails);   *)
(* for n = 0 it is asked for 0 bytes, and the C library may answer that    *)
(* with NULL in any case (malloc0_is_null).                                *)
StepFastunion ==
    /\ call = NoCall
    /\ asserted
    /\ \E out \in Objects, n \in 0..MaxInputs, malloc0_is_null \in BOOLEAN,
          x_fails \in BOOLEAN, c_ans_is_null \in BOOLEAN :
       \E inputs \in [1..n -> Objects] :
        /\ malloc0_is_null => n = 0 /\ ~x_fails /\ ~c_ans_is_null
        /\ x_fails => n > 0 /\ ~c_ans_is_null
        /\ LET u == fastunion(n, [k \in 1..n |-> roars[inputs[k]]],
                              x_fails \/ malloc0_is_null, c_ans_is_null)
           IN  /\ call' = [fn |-> "fastunion", out |-> out, before |-> roars,
                           failed |-> x_fails \/ c_ans_is_null,
                           n |-> n, inputs |-> inputs]
               /\ roars' = IF u.thrown THEN roars
                           ELSE [roars EXCEPT ![out] = move_assign(@, u.ans)]
               /\ asserted' = u.asserted
               /\ thrown' = u.thrown
               /\ returnval' = FALSE
               /\ UNCHANGED <<containerVars, roaring, check, element,
                              inplace, heapVars>>

(* The caller is back from the operation, or has caught its exception, and *)
(* asserts does_std_set_match_roaring of the objects, as fuzz_test does of *)
(* out after each of its steps.                                            *)
StepReturn ==
    /\ call # NoCall
    /\ asserted
    /\ call' = NoCall
    /\ thrown' = FALSE
    /\ asserted' = \A i \in Objects : does_std_set_match_roaring(roars[i]).ans
    /\ UNCHANGED <<roars, returnval, containerVars,
                   roaring, check, element, inplace, heapVars>>

NextWrapper ==
    \/ StepConstruct
    \/ StepMutate
    \/ StepInplace
    \/ StepCopyAssign
    \/ StepCopyConstruct
    \/ StepMoveAssign
    \/ StepSwap
    \/ StepMaterialize
    \/ StepRead
    \/ StepFastunion
    \/ StepReturn

SpecWrapper == Init /\ [][NextWrapper]_vars

(***************************************************************************)
(* addRange and flip with 64-bit arguments at the two ends of the value    *)
(* space, on one object.                                                   *)
(***************************************************************************)
\* how far the arguments reach from 0 and from the end of the value space
Reach == 2

\* the values next to the two ends
EdgeValues == (0..(Reach - 1)) \cup ((ValueLimit - Reach)..(ValueLimit - 1))

\* the 64-bit arguments: around 0 and around the end of the value space
EdgeArgs == (0..Reach) \cup ((ValueLimit - Reach)..(ValueLimit + Reach))

(* The pairs of arguments for which neither the C bitmap nor the check     *)
(* build walks more than 2 * Reach values.                                 *)
RangeArgs ==
    {p \in EdgeArgs \X EdgeArgs :
        /\ p[1] < p[2] =>
              (IF p[2] > ValueLimit THEN ValueLimit ELSE p[2]) - p[1] <= 2 * Reach
        /\ p[1] # p[2] /\ uint32_t(p[1]) <= uint32_t(p[2] - 1) =>
              uint32_t(p[2] - 1) - uint32_t(p[1]) < 2 * Reach}

RangeStep(fn, x, y, after) ==
    /\ asserted
    /\ call' = [fn |-> fn, x |-> x, y |-> y, before |-> This]
    /\ roaring' = after.roaring
    /\ check' = after.check
    /\ UNCHANGED <<returnval, element, inplace, asserted, containerVars,
                   poolVars, heapVars>>

RangeAdd ==
    /\ call = NoCall
    /\ \E x \in EdgeValues : RangeStep("add", x, x, add(This, x))

RangeAddRange ==
    /\ call = NoCall
    /\ \E p \in RangeArgs : RangeStep("addRange", p[1], p[2], addRange(This, p[1], p[2]))

RangeFlip ==
    /\ call = NoCall
    /\ \E p \in RangeArgs : RangeStep("flip", p[1], p[2], flip(This, p[1], p[2]))

\* the flip just made is made once more
RangeFlipAgain ==
    /\ call # NoCall
    /\ call.fn = "flip"
    /\ asserted
    /\ call' = [call EXCEPT !.fn = "flip again"]
    /\ roaring' = flip(This, call.x, call.y).roaring
    /\ check' = flip(This, call.x, call.y).check
    /\ UNCHANGED <<returnval, element, inplace, asserted, containerVars,
                   poolVars, heapVars>>

\* back in the caller, which asserts does_std_set_match_roaring
RangeReturn ==
    /\ call # NoCall
    /\ asserted
    /\ call' = NoCall
    /\ asserted' = does_std_set_match_roaring(This).ans
    /\ UNCHANGED <<returnval, element, inplace, roaring, check,
                   containerVars, poolVars, heapVars>>

NextRange ==
    \/ RangeAdd
    \/ RangeAddRange
    \/ RangeFlip
    \/ RangeFlipAgain
    \/ RangeReturn

SpecRange == Init /\ [][NextRange]_vars

(***************************************************************************)
(* runOptimize, removeRunCompression and shrinkToFit on one object whose   *)
(* containers are held in any of the representations.  A value of check    *)
(* stands for the block of offsets that starts at it.                      *)
(***************************************************************************)
\* the containers a directory can hold: none is empty
ReprContainers == (Arrays \cup Bitsets \cup Runs) \ {ArrayC({}), BitsetC({}), RunC({})}

\* what the directory holds above chunk 0: nothing, or one container
ReprSeconds ==
    {<<>>} \cup {<<ra_entry(1, c, 0)>> : c \in {ArrayC({1}), BitsetC({1}), RunC(Blocks)}}

TypedObject == Roaring(typed, check)

\* the object comes to hold a directory with containers of any kind
ReprBuild ==
    /\ call = NoCall
    /\ typed = <<>>
    /\ \E c \in ReprContainers, slack \in 0..1, second \in ReprSeconds :
        LET built == <<ra_entry(0, c, slack)>> \o second
        IN  /\ typed' = built
            /\ check' = Members(ra_offsets(built))
    /\ call' = [fn |-> "build"]
    /\ UNCHANGED <<returnval, roaring, element, inplace, asserted,
                   containerVars, poolVars, heap, objs>>

\* a post-processing step, and the assert of fuzz_test that follows it
ReprStep(fn, m) ==
    /\ call # NoCall
    /\ asserted
    /\ call' = [fn |-> fn, before |-> typed]
    /\ typed' = m.self.roaring
    /\ check' = m.self.check
    /\ returnval' = m.ans
    /\ asserted' = does_std_set_match_roaring(
                       Roaring(ra_offsets(m.self.roaring), m.self.check)).ans
    /\ UNCHANGED <<roaring, element, inplace, containerVars, poolVars, heap, objs>>

ReprRemoveRunCompression ==
    ReprStep("removeRunCompression", removeRunCompression(TypedObject))

ReprRunOptimize == ReprStep("runOptimize", runOptimize(TypedObject))

ReprShrinkToFit == ReprStep("shrinkToFit", shrinkToFit(TypedObject))

NextRepr ==
    \/ ReprBuild
    \/ ReprRemoveRunCompression
    \/ ReprRunOptimize
    \/ ReprShrinkToFit

SpecRepr == Init /\ [][NextRepr]_vars

(***************************************************************************)
(* Copies of an object and mutations of the copy and of its source, with   *)
(* the copy-on-write flag set or not.                                      *)
(***************************************************************************)
\* the values added and removed: two in chunk 0 and one in chunk 1
CopyValues == (ChunkSize - 2)..ChunkSize

\* the values each object holds
ObjectMembers == [i \in CopyObjects |-> shared_members(heap, objs[i].roaring)]

\* whether self holds a body that another entry holds too
HoldsShared(self) ==
    \E i \in 1..Len(self.roaring) : heap[self.roaring[i].body].counter > 1

CopyStep(fn, self, r, x, m) ==
    /\ call' = [fn |-> fn, self |-> self, r |-> r, x |-> x,
                before |-> ObjectMembers, flag |-> objs[r].copy_on_write,
                shared |-> HoldsShared(objs[self])]
    /\ heap' = m.heap
    /\ objs' = [objs EXCEPT ![self] = m.self]
    /\ UNCHANGED <<returnval, roaringVars, containerVars, poolVars, typed>>

CopyAdd ==
    \E self \in CopyObjects, x \in CopyValues :
        CopyStep("add", self, self, x, add_shared(heap, objs[self], x))

CopyRemove ==
    \E self \in CopyObjects, x \in CopyValues :
        CopyStep("remove", self, self, x, remove_shared(heap, objs[self], x))

CopySetCopyOnWrite ==
    \E self \in CopyObjects, val \in BOOLEAN :
        CopyStep("setCopyOnWrite", self, self, 0,
                 [heap |-> heap, self |-> setCopyOnWrite(objs[self], val)])

\* self is destroyed and constructed again as a copy of r
CopyConstruct ==
    \E self \in CopyObjects : \E r \in CopyObjects \ {self} :
        CopyStep("copy", self, r, 0,
                 copy_construct_shared(ra_clear(heap, objs[self].roaring, 1),
                                       objs[r]))

\* self = r
CopyAssign ==
    \E self \in CopyObjects : \E r \in CopyObjects \ {self} :
        CopyStep("copy", self, r, 0,
                 copy_assign_shared(heap, objs[self], objs[r]))

NextCopy ==
    \/ CopyAdd
    \/ CopyRemove
    \/ CopySetCopyOnWrite
    \/ CopyConstruct
    \/ CopyAssign

SpecCopy == Init /\ [][NextCopy]_vars

(***************************************************************************)
(* The failures a caller can meet: readSafe on a buffer that is truncated  *)
(* or malformed, an allocation that fails inside readSafe or the copy      *)
(* constructor, and select with a rank that is out of range.  The calls    *)
(* are made on one object; call.cause is what went wrong inside the call   *)
(* and call.outcome what the caller has in hand after it: whether an       *)
(* exception arrived, its message, and the kind of value returned.         *)
(***************************************************************************)
\* what write produces for the bitmaps of the pool, and those buffers with
\* the keys of their two containers exchanged
Buffers ==
    LET written == {roaring_bitmap_portable_serialize(b.roaring) :
                        b \in PoolRoarings}
    IN  written \cup {[buf EXCEPT ![2] = buf[4], ![4] = buf[2]] :
                          buf \in {w \in written : w[1] = 2}}

Outcome(exc, what, returned) ==
    [thrown |-> exc, what |-> what, returned |-> returned]

\* why readSafe fails on these arguments, if it does
readSafe_cause(buf, maxbytes, alloc_ok) ==
    IF roaring_bitmap_portable_deserialize_safe(buf, maxbytes, TRUE).is_null
        THEN "decode"
    ELSE IF ~alloc_ok THEN "alloc"
    ELSE "none"

BoundaryStep(fn, args, cause, outcome, after, el) ==
    /\ call' = [fn |-> fn, args |-> args, cause |-> cause, outcome |-> outcome]
    /\ thrown' = outcome.thrown
    /\ roaring' = after.roaring
    /\ check' = after.check
    /\ element' = el
    /\ UNCHANGED <<returnval, containerVars, inplace, asserted, roars,
                   heapVars>>

\* the object is assigned Roaring::readSafe(buf, maxbytes)
BoundaryReadSafe ==
    /\ call = NoCall
    /\ \E buf \in Buffers, alloc_ok \in BOOLEAN :
       \E maxbytes \in 0..Len(buf) :
        LET d == readSafe(buf, maxbytes, alloc_ok)
        IN  BoundaryStep("readSafe", <<buf, maxbytes>>,
                readSafe_cause(buf, maxbytes, alloc_ok),
                Outcome(d.thrown, d.what,
                        IF d.thrown THEN "nothing" ELSE "bitmap"),
                IF d.thrown THEN This ELSE move_assign(This, d.ans),
                element)

\* a copy of the object is constructed; ra_copy can fail when it has
\* containers to copy
BoundaryCopy ==
    /\ call = NoCall
    /\ \E is_ok \in BOOLEAN :
        /\ ~is_ok => roaring # <<>>
        /\ LET d == copy_construct_what(This, is_ok)
           IN  BoundaryStep("copy", <<>>, IF is_ok THEN "none" ELSE "alloc",
                   Outcome(d.thrown, d.what,
                           IF d.thrown THEN "nothing" ELSE "bitmap"),
                   This, element)

\* select(rnk, &element), rnk up to the cardinality
BoundarySelect ==
    /\ call = NoCall
    /\ \E rnk \in 0..Cardinality(check) :
        LET s == select(This, rnk, 0)
        IN  BoundaryStep("select", <<rnk>>,
                IF s.ans THEN "none" ELSE "range",
                Outcome(FALSE, "", IF s.ans THEN "true" ELSE "false"),
                This, s.element)

BoundaryReturn ==
    /\ call # NoCall
    /\ call' = NoCall
    /\ thrown' = FALSE
    /\ element' = 0
    /\ UNCHANGED <<roaring, check, returnval, containerVars, inplace, asserted,
                   roars, heapVars>>

NextBoundary ==
    \/ BoundaryReadSafe
    \/ BoundaryCopy
    \/ BoundarySelect
    \/ BoundaryReturn

SpecBoundary == Init /\ [][NextBoundary]_vars

(***************************************************************************)
(* array_run_container_lazy_xor on an array of at most arbitrary_threshold *)
(* offsets (the merge is followed offset by offset), a run container and a *)
(* dst that is a valid run container, empty or not.                        *)
(***************************************************************************)
CallArrayRunLazyXor ==
    /\ call = NoCall
    /\ \E s1 \in {a \in Arrays : a.cardinality <= arbitrary_threshold},
          s2 \in Runs,
          d \in {run_container_create, RunC({NumBlocks})} :
        /\ call' = [fn |-> "array_run_container_lazy_xor",
                    src_1 |-> s1, src_2 |-> s2, dst |-> d,
                    fed |-> array_run_lazy_feed(s1, s2, 0, 0, <<>>)]
        /\ WritesDst(array_run_container_lazy_xor(s1, s2, d))

NextMerge ==
    \/ CallArrayRunLazyXor

SpecMerge == Init /\ [][NextMerge]_vars

(***************************************************************************)
(* Every function of mixed_xor.c that allocates, on every pair of valid    *)
(* containers of its types, followed for what it allocates and frees.      *)
(***************************************************************************)
xor_own(fn, v1, v2) ==
    CASE fn = "array_bitset_container_xor" ->
            array_bitset_container_xor_own("src_1", "src_2", v1, v2)
      [] fn = "run_bitset_container_xor" ->
            run_bitset_container_xor_own("src_1", "src_2", v1, v2)
      [] fn = "bitset_bitset_container_xor" ->
            bitset_bitset_container_xor_own("src_1", "src_2", v1, v2)
      [] fn = "array_run_container_xor" ->
            array_run_container_xor_own("src_1", "src_2", v1, v2)
      [] fn = "array_array_container_xor" ->
            array_array_container_xor_own("src_1", "src_2", v1, v2)
      [] fn = "run_run_container_xor" ->
            run_run_container_xor_own("src_1", "src_2", v1, v2)
      [] fn = "array_array_container_lazy_xor" ->
            array_array_container_lazy_xor_own("src_1", "src_2", v1, v2)

ixor_own(fn, v1, v2) ==
    CASE fn = "bitset_array_container_ixor" ->
            bitset_array_container_ixor_own("src_1", "src_2", v1, v2)
      [] fn = "bitset_bitset_container_ixor" ->
            bitset_bitset_container_ixor_own("src_1", "src_2", v1, v2)
      [] fn = "array_bitset_container_ixor" ->
            array_bitset_container_ixor_own("src_1", "src_2", v1, v2)
      [] fn = "run_bitset_container_ixor" ->
            run_bitset_container_ixor_own("src_1", "src_2", v1, v2)
      [] fn = "bitset_run_container_ixor" ->
            bitset_run_container_ixor_own("src_1", "src_2", v1, v2)
      [] fn = "array_run_container_ixor" ->
            array_run_container_ixor_own("src_1", "src_2", v1, v2)
      [] fn = "run_array_container_ixor" ->
            run_array_container_ixor_own("src_1", "src_2", v1, v2)
      [] fn = "array_array_container_ixor" ->
            array_array_container_ixor_own("src_1", "src_2", v1, v2)
      [] fn = "run_run_container_ixor" ->
            run_run_container_ixor_own("src_1", "src_2", v1, v2)

\* the valid containers of the type a function's name gives its argument
FirstArguments(fn) ==
    IF fn \in {"array_bitset_container_xor", "array_run_container_xor",
               "array_array_container_xor", "array_array_container_lazy_xor",
               "array_bitset_container_ixor", "array_run_container_ixor",
               "array_array_container_ixor"} THEN Arrays
    ELSE IF fn \in {"bitset_bitset_container_xor", "bitset_array_container_ixor",
                    "bitset_bitset_container_ixor", "bitset_run_container_ixor"}
        THEN Bitsets
    ELSE Runs

SecondArguments(fn) ==
    IF fn \in {"array_array_container_xor", "array_array_container_lazy_xor",
               "bitset_array_container_ixor", "run_array_container_ixor",
               "array_array_container_ixor"} THEN Arrays
    ELSE IF fn \in {"array_bitset_container_xor", "run_bitset_container_xor",
                    "bitset_bitset_container_xor",
                    "bitset_bitset_container_ixor",
                    "array_bitset_container_ixor", "run_bitset_container_ixor"}
        THEN Bitsets
    ELSE Runs

OwnCalled(fn, v1, v2, o) ==
    /\ call' = [fn |-> fn, src_1 |-> v1, src_2 |-> v2,
                events |-> o.events, ans |-> o.ans]
    /\ UNCHANGED <<returnval, containerVars, roaringVars, poolVars, heapVars>>

OwnXor ==
    /\ call = NoCall
    /\ \E fn \in XorFunctions \cup {"array_array_container_lazy_xor"} :
       \E v1 \in FirstArguments(fn), v2 \in SecondArguments(fn) :
        OwnCalled(fn, v1, v2, xor_own(fn, v1, v2))

OwnIxor ==
    /\ call = NoCall
    /\ \E fn \in IxorFunctions :
       \E v1 \in FirstArguments(fn), v2 \in SecondArguments(fn) :
        OwnCalled(fn, v1, v2, ixor_own(fn, v1, v2))

NextOwn ==
    \/ OwnXor
    \/ OwnIxor

SpecOwn == Init /\ [][NextOwn]_vars

(***************************************************************************)
(* A slot under the two ways its owner combines it with another container: *)
(* the in-place xor, and the lazy in-place xor, of which any number may    *)
(* follow one another before one repair pass ends them.  Each is chosen by *)
(* the tag the slot carries and the type of the other container.  The last *)
(* call is the position of the owner: after a lazy xor only a lazy xor or  *)
(* the repair comes next.                                                  *)
(***************************************************************************)
\* the in-place xor of the slot with c2, chosen by the tag and c2's type
container_ixor(c, type, c2) ==
    CASE type = BITSET_CONTAINER_TYPE /\ c2.kind = "array" ->
            bitset_array_container_ixor(c, type, c2)
      [] type = BITSET_CONTAINER_TYPE /\ c2.kind = "bitset" ->
            bitset_bitset_container_ixor(c, type, c2)
      [] type = BITSET_CONTAINER_TYPE /\ c2.kind = "run" ->
            bitset_run_container_ixor(c, type, c2)
      [] type = ARRAY_CONTAINER_TYPE /\ c2.kind = "array" ->
            array_array_container_ixor(c, type, c2)
      [] type = ARRAY_CONTAINER_TYPE /\ c2.kind = "bitset" ->
            array_bitset_container_ixor(c, type, c2)
      [] type = ARRAY_CONTAINER_TYPE /\ c2.kind = "run" ->
            array_run_container_ixor(c, type, c2)
      [] type = RUN_CONTAINER_TYPE /\ c2.kind = "array" ->
            run_array_container_ixor(c, type, c2)
      [] type = RUN_CONTAINER_TYPE /\ c2.kind = "bitset" ->
            run_bitset_container_ixor(c, type, c2)
      [] type = RUN_CONTAINER_TYPE /\ c2.kind = "run" ->
            run_run_container_ixor(c, type, c2)

(* The lazy in-place xor.  A bitset slot is written in place; an array or  *)
(* run slot is replaced by the container the lazy function fills, a new    *)
(* bitset or run, or the one array_array_container_lazy_xor allocates.     *)
(* Two bitsets are xored word by word with no count, and two runs by the   *)
(* non-lazy function.                                                      *)
container_lazy_ixor(c, type, c2) ==
    CASE type = BITSET_CONTAINER_TYPE /\ c2.kind = "array" ->
            Slot(array_bitset_container_lazy_xor(c2, c, c, TRUE),
                 BITSET_CONTAINER_TYPE)
      [] type = BITSET_CONTAINER_TYPE /\ c2.kind = "bitset" ->
            Slot([c EXCEPT !.words = SymDiff(c.words, c2.words),
                           !.cardinality = BITSET_UNKNOWN_CARDINALITY],
                 BITSET_CONTAINER_TYPE)
      [] type = BITSET_CONTAINER_TYPE /\ c2.kind = "run" ->
            Slot(run_bitset_container_lazy_xor(c2, c, c, TRUE),
                 BITSET_CONTAINER_TYPE)
      [] type = ARRAY_CONTAINER_TYPE /\ c2.kind = "array" ->
            LET r == array_array_container_lazy_xor(c, c2, TRUE)
            IN  Slot(r.dst, IF r.returnval THEN BITSET_CONTAINER_TYPE
                                           ELSE ARRAY_CONTAINER_TYPE)
      [] type = ARRAY_CONTAINER_TYPE /\ c2.kind = "bitset" ->
            Slot(array_bitset_container_lazy_xor(c, c2, bitset_container_create,
                                                 FALSE),
                 BITSET_CONTAINER_TYPE)
      [] type = ARRAY_CONTAINER_TYPE /\ c2.kind = "run" ->
            Slot(array_run_container_lazy_xor(c, c2, run_container_create),
                 RUN_CONTAINER_TYPE)
      [] type = RUN_CONTAINER_TYPE /\ c2.kind = "array" ->
            Slot(array_run_container_lazy_xor(c2, c, run_container_create),
                 RUN_CONTAINER_TYPE)
      [] type = RUN_CONTAINER_TYPE /\ c2.kind = "bitset" ->
            Slot(run_bitset_container_lazy_xor(c, c2, bitset_container_create,
                                               FALSE),
                 BITSET_CONTAINER_TYPE)
      [] type = RUN_CONTAINER_TYPE /\ c2.kind = "run" ->
            run_run_container_ixor(c, type, c2)

(* The repair pass on one slot: a bitset is counted, and made an array     *)
(* when it holds at most DEFAULT_MAX_SIZE offsets; a run container gets    *)
(* its fit step; an array is left.                                         *)
container_repair_after_lazy(c, type) ==
    CASE type = BITSET_CONTAINER_TYPE ->
            LET counted == [c EXCEPT !.cardinality =
                                bitset_container_compute_cardinality(c)]
            IN  IF counted.cardinality <= DEFAULT_MAX_SIZE
                    THEN Slot(array_container_from_bitset(counted),
                              ARRAY_CONTAINER_TYPE)
                    ELSE Slot(counted, BITSET_CONTAINER_TYPE)
      [] type = ARRAY_CONTAINER_TYPE -> Slot(c, type)
      [] type = RUN_CONTAINER_TYPE ->
            FromXor(convert_run_to_efficient_container_and_free(c))

\* the block sets of the operands: the stretches of consecutive blocks
Stretches == {{}} \cup {lo..hi : lo \in Blocks, hi \in Blocks}

(* The other containers: the arrays of at most arbitrary_threshold         *)
(* offsets, and the bitset and the run container of every stretch.         *)
Operands ==
    {a \in Arrays : a.cardinality <= arbitrary_threshold}
        \cup {BitsetC(S) : S \in Stretches} \cup {RunC(S) : S \in Stretches}

DisciplineNew ==
    /\ call = NoCall
    /\ \E c \in Operands :
        /\ c1' = c
        /\ type1' = TypeOf(c)
        /\ call' = [fn |-> "new", c1 |-> c, type1 |-> TypeOf(c), c2 |-> c]
    /\ UNCHANGED <<ans, result_type, returnval, ub, roaringVars, poolVars,
                   heapVars>>

(* A call on the slot.  One entered on a slot whose tag does not name the  *)
(* container reads the container through the wrong struct, after which the *)
(* slot may hold anything.                                                 *)
DisciplineCall(fn, c2, after) ==
    /\ ~ub
    /\ call' = [fn |-> fn, c1 |-> c1, type1 |-> type1, c2 |-> c2]
    /\ IF TypeOf(c1) = type1
           THEN /\ c1' = after.c1
                /\ type1' = after.type1
                /\ ub' = FALSE
           ELSE /\ c1' \in Operands
                /\ type1' \in TypeTags
                /\ ub' = TRUE
    /\ UNCHANGED <<ans, result_type, returnval, roaringVars, poolVars,
                   heapVars>>

DisciplineIxor ==
    /\ call.fn \in {"new", "container_ixor", "container_repair_after_lazy"}
    /\ \E c2 \in Operands :
        DisciplineCall("container_ixor", c2,
                       IF TypeOf(c1) = type1 THEN container_ixor(c1, type1, c2)
                                             ELSE Slot(c1, type1))

(* The lazy xor of an array slot with a run container walks the array one  *)
(* offset at a time: it is followed for the arrays of Operands.            *)
DisciplineLazyIxor ==
    /\ call # NoCall
    /\ \E c2 \in Operands :
        /\ (c1.kind = "array" /\ c2.kind = "run") => c1 \in Operands
        /\ DisciplineCall("container_lazy_ixor", c2,
                          IF TypeOf(c1) = type1
                              THEN container_lazy_ixor(c1, type1, c2)
                              ELSE Slot(c1, type1))

DisciplineRepair ==
    /\ call.fn = "container_lazy_ixor"
    /\ DisciplineCall("container_repair_after_lazy", c1,
                      IF TypeOf(c1) = type1
                          THEN container_repair_after_lazy(c1, type1)
                          ELSE Slot(c1, type1))

NextDiscipline ==
    \/ DisciplineNew
    \/ DisciplineIxor
    \/ DisciplineLazyIxor
    \/ DisciplineRepair

SpecDiscipline == Init /\ [][NextDiscipline]_vars

(***************************************************************************)
(* Assignments and moves between two objects.  A step names the            *)
(* destination out and the source r; only the copy assignment is applied   *)
(* with out and r the same object.                                         *)
(***************************************************************************)
AssignStep(fn, out, r, after, held) ==
    /\ asserted
    /\ call' = [fn |-> fn, out |-> out, r |-> r, before |-> roars]
    /\ roars' = after
    /\ asserted' = held
    /\ UNCHANGED <<thrown, returnval, containerVars,
                   roaring, check, element, inplace, heapVars>>

AssignAdd ==
    /\ call = NoCall
    /\ \E out \in Objects, x \in PoolWindow :
        AssignStep("add", out, out, [roars EXCEPT ![out] = add(@, x)], TRUE)

\* out is destroyed, and constructed again from std::move(r)
AssignMoveConstruct ==
    /\ call = NoCall
    /\ \E out \in Objects : \E r \in Objects \ {out} :
        AssignStep("move_construct", out, r,
                   [roars EXCEPT ![out] = move_construct(roars[r]),
                                 ![r] = moved_from],
                   destroy(roars[out]))

\* out = std::move(r), r another object
AssignMoveAssign ==
    /\ call = NoCall
    /\ \E out \in Objects : \E r \in Objects \ {out} :
        AssignStep("move_assign", out, r,
                   [roars EXCEPT ![out] = move_assign(@, roars[r]),
                                 ![r] = moved_from],
                   TRUE)

\* out = r, r any object, out included
AssignCopy ==
    /\ call = NoCall
    /\ \E out \in Objects, r \in Objects :
        AssignStep("copy_assign", out, r,
                   [roars EXCEPT ![out] =
                        copy_assign(@, roars[r], out = r, TRUE).ans],
                   TRUE)

AssignReturn ==
    /\ call # NoCall
    /\ asserted
    /\ call' = NoCall
    /\ asserted' = \A i \in Objects : does_std_set_match_roaring(roars[i]).ans
    /\ UNCHANGED <<roars, thrown, returnval, containerVars,
                   roaring, check, element, inplace, heapVars>>

NextAssign ==
    \/ AssignAdd
    \/ AssignMoveConstruct
    \/ AssignMoveAssign
    \/ AssignCopy
    \/ AssignReturn

SpecAssign == Init /\ [][NextAssign]_vars

(***************************************************************************)
(* containsRange with 64-bit arguments at the two ends of the value space, *)
(* on one object built by add and remove.                                  *)
(***************************************************************************)
(* Whether every value of range_start .. range_end - 1 is in the bitmap:   *)
(* true of an empty range, and false of a range that holds a value beyond  *)
(* the value space, which no bitmap holds.                                 *)
roaring_bitmap_contains_range(r, range_start, range_end) ==
    IF range_start >= range_end THEN TRUE
    ELSE Cardinality({v \in Members(r) : range_start <= v /\ v < range_end})
             = range_end - range_start

\* the loop of containsRange: it has been advanced once and last is behind it
RECURSIVE containsRange_last(_, _, _, _)
containsRange_last(chk, it, last, y) ==
    IF it # it_end /\ last + 1 = it /\ it < y
        THEN containsRange_last(chk, set_next(chk, it), it, y)
    ELSE last

\* containsRange(x, y): check.find takes x as a uint32_t
containsRange(self, x, y) ==
    LET contained == roaring_bitmap_contains_range(self.roaring, x, y)
        it == IF uint32_t(x) \in self.check THEN uint32_t(x) ELSE it_end
    IN  [ans |-> contained,
         asserted |->
            IF x >= y THEN contained = TRUE
            ELSE IF it = it_end THEN contained = FALSE
            ELSE LET last == containsRange_last(self.check,
                                 set_next(self.check, it), x, y)
                 IN  contained = (last = y - 1)]

ContainsStep(fn, x, y, after, ret, held) ==
    /\ asserted
    /\ call' = [fn |-> fn, x |-> x, y |-> y, before |-> This]
    /\ roaring' = after.roaring
    /\ check' = after.check
    /\ returnval' = ret
    /\ asserted' = held
    /\ UNCHANGED <<element, inplace, containerVars, poolVars, heapVars>>

ContainsAdd ==
    /\ call = NoCall
    /\ \E x \in EdgeValues : ContainsStep("add", x, x, add(This, x), FALSE, TRUE)

ContainsRemove ==
    /\ call = NoCall
    /\ \E x \in check : ContainsStep("remove", x, x, remove(This, x), FALSE, TRUE)

ContainsRange ==
    /\ call = NoCall
    /\ \E x \in EdgeArgs, y \in EdgeArgs :
        LET c == containsRange(This, x, y)
        IN  ContainsStep("containsRange", x, y, This, c.ans, c.asserted)

ContainsReturn ==
    /\ call # NoCall
    /\ asserted
    /\ call' = NoCall
    /\ returnval' = FALSE
    /\ UNCHANGED <<asserted, element, inplace, roaring, check,
                   containerVars, poolVars, heapVars>>

NextContains ==
    \/ ContainsAdd
    \/ ContainsRemove
    \/ ContainsRange
    \/ ContainsReturn

SpecContains == Init /\ [][NextContains]_vars

(***************************************************************************)
(* Properties of the xor engine.                                           *)
(***************************************************************************)

(* C1.  After each of the six non-lazy xor functions, whatever             *)
(* *result_type held before the call, *result_type is the type tag of the  *)
(* container returned.                                                     *)
C1_ResultTypeNamesReturned ==
    call.fn \in XorFunctions => result_type = TypeOf(ans)

(* C2.  After an in-place function entered with the slot's tag naming its  *)
(* container, and so after any sequence of them on one slot, the tag names *)
(* the container the slot holds.                                           *)
C2_TagNamesSlot ==
    (call.fn \in IxorFunctions /\ ~ub) => type1 = TypeOf(c1)

(* C3.  The container a non-lazy xor returns holds exactly the offsets     *)
(* that are in exactly one of the two inputs, on every branch, and is a    *)
(* valid container of its kind.                                            *)
C3_XorIsSymmetricDifference ==
    call.fn \in XorFunctions => Offsets(ans) = Expected /\ WellFormed(ans)

\* the bitmap branch of array_run_container_xor, on overlapping inputs
C3_Witness ==
    /\ call.fn = "array_run_container_xor"
    /\ call.src_1.cardinality >= arbitrary_threshold
    /\ run_container_cardinality(call.src_2) > DEFAULT_MAX_SIZE
    /\ Offsets(call.src_1) \cap Offsets(call.src_2) # {}
    /\ Offsets(call.src_1) \ Offsets(call.src_2) # {}
    /\ Offsets(ans) = Expected

(* C5.  Fit step.  A function that passes through a bitmap returns (or     *)
(* leaves in the slot) an array when the final cardinality is at most      *)
(* 4096 and a bitset when it is more; and no non-lazy xor returns a bitset *)
(* of at most 4096 offsets or an array of more.                            *)
ThroughBitmap ==
    \/ call.fn \in {"array_bitset_container_xor", "run_bitset_container_xor",
                    "bitset_bitset_container_xor", "bitset_array_container_ixor"}
    \/ /\ call.fn = "array_array_container_xor"
       /\ call.src_1.cardinality + call.src_2.cardinality > DEFAULT_MAX_SIZE

C5_FitStep ==
    /\ ThroughBitmap =>
          /\ TrueCard(Out) <= DEFAULT_MAX_SIZE => Out.kind = "array"
          /\ TrueCard(Out) > DEFAULT_MAX_SIZE => Out.kind = "bitset"
    /\ call.fn \in XorFunctions =>
          /\ ~(ans.kind = "bitset" /\ TrueCard(ans) <= DEFAULT_MAX_SIZE)
          /\ ~(ans.kind = "array" /\ TrueCard(ans) > DEFAULT_MAX_SIZE)

\* two bitsets whose xor has exactly 4096 offsets
C5_Witness ==
    /\ call.fn = "bitset_bitset_container_xor"
    /\ call.src_1.cardinality > DEFAULT_MAX_SIZE
    /\ call.src_2.cardinality > DEFAULT_MAX_SIZE
    /\ TrueCard(ans) = DEFAULT_MAX_SIZE
    /\ ans.kind = "array"

(* C6.  A bitset returned by a non-lazy xor, or left in the slot by an     *)
(* in-place function, has a known cached cardinality, equal to the number  *)
(* of bits set.                                                            *)
C6_BitsetCardinalityAccurate ==
    (call.fn \in XorFunctions \cup IxorFunctions /\ Out.kind = "bitset") =>
        /\ Out.cardinality # BITSET_UNKNOWN_CARDINALITY
        /\ Out.cardinality = SumW(Out.words)

\* a run flipped into a bitset changes its cardinality and leaves a bitset
C6_Witness ==
    /\ call.fn = "run_bitset_container_xor"
    /\ ans.kind = "bitset"
    /\ ans.cardinality # call.src_2.cardinality
    /\ ans.cardinality = SumW(ans.words)

(* C7.  array_bitset_container_lazy_xor and run_bitset_container_lazy_xor  *)
(* leave in dst a bitset holding the symmetric difference of src_1 and     *)
(* src_2 with cardinality BITSET_UNKNOWN_CARDINALITY, whatever the true    *)
(* cardinality and whether dst is src_2 or a separate container.           *)
C7_LazyBitsetXor ==
    call.fn \in LazyBitsetFunctions =>
        ans = [kind |-> "bitset", cardinality |-> BITSET_UNKNOWN_CARDINALITY,
               words |-> Expected]

\* a separate dst that held other bits, and a result small enough for an array
C7_Witness ==
    /\ call.fn = "array_bitset_container_lazy_xor"
    /\ ~call.aliased
    /\ call.dst.words # call.src_2.words
    /\ call.src_1.cardinality > 0
    /\ ans.words = Expected
    /\ SumW(ans.words) \in 1..DEFAULT_MAX_SIZE

(* C8.  array_array_container_lazy_xor leaves in *dst the symmetric        *)
(* difference and returns true exactly when *dst is a bitset (of unknown   *)
(* cardinality) and false exactly when it is an array, for every input and *)
(* also when the allocation fails.                                         *)
ReturnTellsKind ==
    /\ returnval <=> (ans.kind = "bitset"
                        /\ ans.cardinality = BITSET_UNKNOWN_CARDINALITY)
    /\ ~returnval <=> ans.kind = "array"
    /\ Offsets(ans) = Expected

C8_ReturnTellsKind ==
    call.fn = "array_array_container_lazy_xor" => ReturnTellsKind

(* C8, with the allocation failure set apart: when the allocation succeeds *)
(* the return value tells the kind of *dst as above; when it fails *dst is *)
(* NULL and the return value tells only which kind was attempted (true iff *)
(* the summed cardinality exceeds ARRAY_LAZY_LOWERBOUND).                  *)
C8_ReturnTellsKindUnlessNull ==
    call.fn = "array_array_container_lazy_xor" =>
        IF call.alloc_ok
            THEN ReturnTellsKind
            ELSE /\ ans = NULL
                 /\ returnval <=> (call.src_1.cardinality + call.src_2.cardinality
                                      > ARRAY_LAZY_LOWERBOUND)

\* the allocation of the bitset fails and true is returned
C8_Witness ==
    /\ call.fn = "array_array_container_lazy_xor"
    /\ ~call.alloc_ok
    /\ returnval
    /\ ans = NULL

(***************************************************************************)
(* Properties of the wrapper.                                              *)
(***************************************************************************)
BinaryOperators == {"operator&", "operator-", "operator|", "operator^"}

\* the set the operator fn is to compute from the sets A and B
SetOp(fn, A, B) ==
    CASE fn = "operator&" -> A \cap B
      [] fn = "operator-" -> A \ B
      [] fn = "operator|" -> A \cup B
      [] fn = "operator^" -> SymDiff(A, B)

\* what the non-lazy xor of the same name returns for the inputs of an ixor
CorrespondingXor ==
    CASE call.fn = "bitset_array_container_ixor" ->
            array_bitset_container_xor(call.src_2, call.src_1, 0)
      [] call.fn = "bitset_bitset_container_ixor" ->
            bitset_bitset_container_xor(call.src_1, call.src_2, 0)
      [] call.fn = "array_bitset_container_ixor" ->
            array_bitset_container_xor(call.src_1, call.src_2, 0)
      [] call.fn = "run_bitset_container_ixor" ->
            run_bitset_container_xor(call.src_1, call.src_2, 0)
      [] call.fn = "bitset_run_container_ixor" ->
            run_bitset_container_xor(call.src_2, call.src_1, 0)
      [] call.fn = "array_run_container_ixor" ->
            array_run_container_xor(call.src_1, call.src_2, 0)
      [] call.fn = "run_array_container_ixor" ->
            array_run_container_xor(call.src_2, call.src_1, 0)
      [] call.fn = "array_array_container_ixor" ->
            array_array_container_xor(call.src_1, call.src_2, 0)
      [] call.fn = "run_run_container_ixor" ->
            run_run_container_xor(call.src_1, call.src_2, 0)

(* C4.  The in-place operator applied to a copy of A leaves the set the    *)
(* materialized operator returns, which is the and, andnot, or, xor of the *)
(* two sets; and each in-place xor of containers leaves in the slot the    *)
(* offsets the non-lazy xor of the same inputs returns.                    *)
C4_InPlaceAgreesWithMaterialized ==
    /\ call.fn \in BinaryOperators =>
          /\ asserted
          /\ Members(inplace.roaring) = Members(ans.roaring)
          /\ Members(ans.roaring) =
                 SetOp(call.fn, Members(call.self.roaring), Members(call.o.roaring))
    /\ call.fn \in IxorFunctions =>
          /\ Offsets(c1) = Offsets(CorrespondingXor.ans)
          /\ c1.kind = CorrespondingXor.ans.kind

\* a bitset and an array that overlap, the slot ending as an array
C4_Witness ==
    /\ call.fn = "bitset_array_container_ixor"
    /\ Offsets(call.src_1) \cap Offsets(call.src_2) # {}
    /\ Offsets(call.src_2) \ Offsets(call.src_1) # {}
    /\ c1.kind = "array"
    /\ Offsets(c1) = Offsets(CorrespondingXor.ans)

(* C9.  On every bitmap reached by add, addRange, flip, remove and the     *)
(* in-place set operators: select(r) succeeds for each r below the         *)
(* cardinality and rank of the element it gives is r + 1; for each member  *)
(* v, select(rank(v) - 1) gives v; rank(x) is the number of members <= x;  *)
(* and no assertion of the two methods fails.                              *)
C9_RankSelectInverse ==
    LET M == Members(roaring)
    IN  /\ asserted
        /\ \A rnk \in 0..(Cardinality(M) - 1) :
              LET s == select(This, rnk, 0)
              IN  s.ans /\ s.asserted /\ rank(This, s.element).ans = rnk + 1
        /\ \A v \in M :
              LET s == select(This, rank(This, v).ans - 1, 0)
              IN  s.ans /\ s.element = v
        /\ \A x \in RankArgs :
              /\ rank(This, x).ans = Cardinality({m \in M : m <= x})
              /\ rank(This, x).asserted

\* select has just reached into the second container of a two-chunk bitmap
C9_Witness ==
    /\ call.fn = "select"
    /\ returnval
    /\ Len(roaring) = 2
    /\ call.rnk >= Cardinality(roaring[1].container)
    /\ high(element) = roaring[2].key
    /\ rank(This, element).ans = call.rnk + 1

(* C10.  select(rnk, &element) returns true iff rnk is below the           *)
(* cardinality and then element is the member with exactly rnk smaller     *)
(* members; otherwise it returns false, no assertion fails and the bitmap  *)
(* is what it was.                                                         *)
C10_SelectOutOfRange ==
    call.fn = "select" =>
        LET M == Members(roaring)
        IN  /\ asserted
            /\ returnval <=> call.rnk < Cardinality(M)
            /\ returnval =>
                   element \in M /\ Cardinality({m \in M : m < element}) = call.rnk
            /\ This = call.self
            /\ M = check

\* select(cardinality) on a bitmap that is not empty
C10_Witness ==
    /\ call.fn = "select"
    /\ ~returnval
    /\ roaring # <<>>
    /\ call.rnk = Cardinality(Members(roaring))
    /\ asserted

(***************************************************************************)
(* Properties of the queries and operators on two objects of the pool.     *)
(***************************************************************************)
SetCases == {"AND", "ANDNOT", "OR", "XOR"}

\* the operator a case of fuzz_test computes
CaseOperator(fn) ==
    CASE fn = "AND" -> "operator&"
      [] fn = "ANDNOT" -> "operator-"
      [] fn = "OR" -> "operator|"
      [] fn = "XOR" -> "operator^"

\* the cardinality-only method of the same case
CaseCardinality(fn, L, R) ==
    CASE fn = "AND" -> and_cardinality(L, R)
      [] fn = "ANDNOT" -> andnot_cardinality(L, R)
      [] fn = "OR" -> or_cardinality(L, R)
      [] fn = "XOR" -> xor_cardinality(L, R)

\* the objects left and right named when the last step began, and out now
Left == call.before[call.left]
Right == call.before[call.right]
OutNow == roars[call.out]

(* C11.  In each of the four set cases the cardinality-only method         *)
(* returned the number of values of the materialized result, which is the  *)
(* number of values of the set operation on left and right, also when left *)
(* and right are the same object; and_, or_ and xor_cardinality give the   *)
(* same number with the operands exchanged; no assertion failed.           *)
C11_CardinalityOnly ==
    call.fn \in SetCases =>
        /\ asserted
        /\ returnval = Cardinality(Members(OutNow.roaring))
        /\ returnval = Cardinality(SetOp(CaseOperator(call.fn),
                                         Members(Left.roaring),
                                         Members(Right.roaring)))
        /\ call.fn # "ANDNOT" =>
              returnval = CaseCardinality(call.fn, Right, Left).ans

\* xor_cardinality of two overlapping sets, neither inside the other
C11_Witness ==
    /\ call.fn = "XOR"
    /\ Left.check \ Right.check # {}
    /\ Right.check \ Left.check # {}
    /\ Left.check \cap Right.check # {}
    /\ returnval = Cardinality(Members(OutNow.roaring))
    /\ returnval = 2

(* C12.  For the objects A = left and B = right of any set case, with the  *)
(* cardinalities of the materialized results: |A or B| = |A| + |B| -       *)
(* |A and B|, |A xor B| = |A| + |B| - 2 |A and B|, |A andnot B| = |A| -    *)
(* |A and B|.                                                              *)
C12_CardinalityIdentities ==
    call.fn \in SetCases =>
        LET A == cardinality(Left).ans
            B == cardinality(Right).ans
            both == cardinality(operator_and(Left, Right).ans).ans
        IN  /\ cardinality(operator_or(Left, Right).ans).ans = A + B - both
            /\ cardinality(operator_xor(Left, Right).ans).ans = A + B - 2 * both
            /\ cardinality(operator_andnot(Left, Right).ans).ans = A - both

\* left and right overlap, and only left has values outside the other
C12_Witness ==
    /\ call.fn \in SetCases
    /\ Left.check \cap Right.check # {}
    /\ Cardinality(Left.check \ Right.check) = 2
    /\ Right.check \ Left.check = {}
    /\ cardinality(operator_andnot(Left, Right).ans).ans = 2
    /\ cardinality(operator_andnot(Right, Left).ans).ans = 0

(* C13.  After each set case, with isSubset and intersect: left & right is *)
(* a subset of left and of right; left and right are subsets of            *)
(* left | right; left - right is a subset of left and does not intersect   *)
(* right; left ^ right does not intersect left & right.                    *)
C13_Containment ==
    /\ call.fn = "AND" =>
          /\ isSubset(OutNow, Left).ans /\ isSubset(OutNow, Left).asserted
          /\ isSubset(OutNow, Right).ans /\ isSubset(OutNow, Right).asserted
    /\ call.fn = "OR" =>
          /\ isSubset(Left, OutNow).ans /\ isSubset(Left, OutNow).asserted
          /\ isSubset(Right, OutNow).ans /\ isSubset(Right, OutNow).asserted
    /\ call.fn = "ANDNOT" =>
          /\ isSubset(OutNow, Left).ans /\ isSubset(OutNow, Left).asserted
          /\ ~intersect(OutNow, Right).ans /\ intersect(OutNow, Right).asserted
    /\ call.fn = "XOR" =>
          LET both == operator_and(Left, Right).ans
          IN  ~intersect(OutNow, both).ans /\ intersect(OutNow, both).asserted

\* a difference that is a proper, non-empty part of left, across two chunks
C13_Witness ==
    /\ call.fn = "ANDNOT"
    /\ Len(Left.roaring) = 2
    /\ OutNow.check # {}
    /\ OutNow.check # Left.check
    /\ Right.check \ Left.check # {}
    /\ isSubset(OutNow, Left).ans
    /\ ~isSubset(Left, OutNow).ans
    /\ ~intersect(OutNow, Right).ans

(* C14.  fastunion(n, inputs) returns without an exception the union of    *)
(* the inputs, which is what folding operator|= over them gives: the empty *)
(* bitmap for no input, a bitmap equal to the input for one; also when an  *)
(* object is named several times and when the result is assigned to one of *)
(* the inputs; no other object of the pool changes.                        *)
C14_Fastunion ==
    call.fn = "fastunion" /\ ~call.failed =>
        /\ ~thrown
        /\ asserted
        /\ Members(OutNow.roaring) =
               UNION {Members(call.before[call.inputs[k]].roaring) : k \in 1..call.n}
        /\ OutNow.check = Members(OutNow.roaring)
        /\ \A i \in Pool \ {call.out} : roars[i] = call.before[i]

(* C15.  After every operation that returned, each object of the pool      *)
(* iterates in strictly ascending order exactly the values of its          *)
(* reference set, does_std_set_match_roaring is true of it, and its        *)
(* cardinality is the size of the reference set.                           *)
C15_MatchesReference ==
    ~thrown =>
        \A i \in Objects :
            LET values == roaring_iterate(roars[i].roaring)
            IN  /\ \A j \in 1..(Len(values) - 1) : values[j] < values[j + 1]
                /\ values = SortAscending(roars[i].check)
                /\ does_std_set_match_roaring(roars[i]).ans
                /\ cardinality(roars[i]).ans = Cardinality(roars[i].check)

(* C20.  When an operation has thrown for a failed allocation, every       *)
(* object of the pool, the destination of a copy assignment included, is   *)
(* as it was before the call.                                              *)
C20_FailureLeavesState ==
    thrown /\ call.failed => roars = call.before

\* the values x .. y - 1 that are values of the bitmap: none when x >= y
RangeValues(x, y) ==
    IF x >= y THEN {}
    ELSE x..((IF y > ValueLimit THEN ValueLimit ELSE y) - 1)

(* C17.  addRange(x, y) leaves the bitmap and its reference set as they    *)
(* were when x >= y, and otherwise adds to both exactly the values v with  *)
(* x <= v < min(y, 0x100000000).                                           *)
C17_AddRangeClamps ==
    call.fn = "addRange" =>
        /\ Members(roaring) =
               Members(call.before.roaring) \cup RangeValues(call.x, call.y)
        /\ check = call.before.check \cup RangeValues(call.x, call.y)

\* the symmetric difference of two sets
Toggled(S, range) == (S \ range) \cup (range \ S)

(* C18.  flip(range_start, range_end) toggles in the bitmap and in its     *)
(* reference set exactly the values v with range_start <= v <              *)
(* min(range_end, 0x100000000), none when range_start >= range_end; the    *)
(* same flip made again gives back the bitmap and the reference set of     *)
(* before the first.                                                       *)
C18_FlipToggles ==
    /\ call.fn = "flip" =>
          /\ Members(roaring) = Toggled(Members(call.before.roaring),
                                        RangeValues(call.x, call.y))
          /\ check = Toggled(call.before.check, RangeValues(call.x, call.y))
          /\ call.x >= call.y => This = call.before
    /\ call.fn = "flip again" => This = call.before

\* a flip whose end lies beyond the value space, made twice, on a bitmap
\* that holds one of the two values it toggles
C18_Witness ==
    /\ call.fn = "flip again"
    /\ call.x = ValueLimit - 2
    /\ call.y > ValueLimit
    /\ check = {ValueLimit - 1}
    /\ Members(roaring) = check

PostProcessing == {"removeRunCompression", "runOptimize", "shrinkToFit"}

(* C16.  After removeRunCompression, runOptimize or shrinkToFit, however   *)
(* many have gone before, the bitmap holds the values it held before the   *)
(* call, which are those of its reference set, in well-formed containers   *)
(* none of which is empty.                                                 *)
C16_RepresentationOnly ==
    call.fn \in PostProcessing =>
        /\ Members(ra_offsets(typed)) = Members(ra_offsets(call.before))
        /\ Members(ra_offsets(typed)) = check
        /\ asserted
        /\ \A i \in 1..Len(typed) :
              /\ WellFormed(typed[i].container)
              /\ Offsets(typed[i].container) # {}

\* runOptimize has turned the array of chunk 0 into a run container and
\* kept the array of one offset above it
C16_Witness ==
    /\ call.fn = "runOptimize"
    /\ Len(typed) = 2
    /\ call.before[1].container.kind = "array"
    /\ typed[1].container.kind = "run"
    /\ typed[2].container.kind = "array"
    /\ Members(ra_offsets(typed)) = Members(ra_offsets(call.before))
    /\ returnval = TRUE

(* C19.  After a copy, by the constructor or by the assignment, the copy   *)
(* holds the values of the source and its reference set, and carries the   *)
(* flag the source had; the source is as before.  A mutation of one        *)
(* object changes the values of that object alone, whether bodies were     *)
(* shared or not; every object holds the values of its reference set.      *)
C19_CopyIsIndependent ==
    /\ \A i \in CopyObjects : ObjectMembers[i] = objs[i].check
    /\ call.fn = "copy" =>
          /\ ObjectMembers[call.self] = call.before[call.r]
          /\ ObjectMembers[call.r] = call.before[call.r]
          /\ getCopyOnWrite(objs[call.self]) = call.flag
          /\ getCopyOnWrite(objs[call.r]) = call.flag
    /\ call.fn \in {"add", "remove"} =>
          /\ \A i \in CopyObjects \ {call.self} : ObjectMembers[i] = call.before[i]
          /\ ObjectMembers[call.self] =
                 IF call.fn = "add" THEN call.before[call.self] \cup {call.x}
                                    ELSE call.before[call.self] \ {call.x}

\* a value is removed from a copy that shared its bodies with the source,
\* which keeps it
C19_Witness ==
    /\ call.fn = "remove"
    /\ call.shared
    /\ call.before[1] = call.before[2]
    /\ call.x \in call.before[call.self]
    /\ call.x \notin ObjectMembers[call.self]
    /\ \E i \in CopyObjects \ {call.self} :
          /\ call.x \in ObjectMembers[i]
          /\ getCopyOnWrite(objs[i])
(***************************************************************************)
(* Properties of the errors at the boundary.                               *)
(***************************************************************************)
Faults == {"alloc", "decode", "range"}

\* the outcomes the calls of the boundary give when `fault` happens in them
OutcomesOf(fault) ==
    CASE fault = "range" ->
            {Outcome(FALSE, "", "false")}
      [] fault = "decode" ->
            {Outcome(TRUE, readSafe(buf, 0, TRUE).what, "nothing") :
                 buf \in Buffers}
      [] fault = "alloc" ->
            {Outcome(TRUE, readSafe(buf, Len(buf), FALSE).what, "nothing") :
                 buf \in Buffers}
            \cup {Outcome(TRUE, copy_construct_what(b, FALSE).what, "nothing") :
                      b \in PoolRoarings}

(* C21.  An allocation failure, a failure of the safe decoder and a select *)
(* out of range each leave the caller with an outcome that neither of the  *)
(* other two can give.                                                     *)
C21_Distinguishable ==
    (call # NoCall /\ call.fn \in {"readSafe", "copy", "select"}
        /\ call.cause \in Faults) =>
        \A other \in Faults \ {call.cause} :
            call.outcome \notin OutcomesOf(other)

(* C22.  When left and right of a set case are the same object A, the      *)
(* materialized operator gives A for | and &, and the empty set for - and  *)
(* ^; this is what out holds after the assignment, also when out is A      *)
(* itself, with its reference set the same; no assertion failed and no     *)
(* other object changed.                                                   *)
C22_SelfOperand ==
    (call.fn \in SetCases /\ call.left = call.right) =>
        LET A == Members(Left.roaring)
            result == IF call.fn \in {"AND", "OR"} THEN A ELSE {}
        IN  /\ asserted
            /\ Members(OutNow.roaring) = result
            /\ OutNow.check = result
            /\ \A i \in Pool \ {call.out} : roars[i] = call.before[i]

\* A ^ A assigned to A itself, A holding values of two chunks
C22_Witness ==
    /\ call.fn = "XOR"
    /\ call.left = call.right
    /\ call.out = call.left
    /\ Len(Left.roaring) = 2
    /\ Cardinality(Left.check) >= 2
    /\ OutNow.roaring = <<>>
    /\ OutNow.check = {}

(* C23.  containsRange(x, y) returns, with no assertion failing, true when *)
(* x >= y and otherwise true exactly when every value v with x <= v < y is *)
(* in the bitmap: false when x is not, false when any value of the range   *)
(* is missing, and false for a range that is not empty and whose upper     *)
(* bound is beyond 0x100000000.                                            *)
C23_ContainsRange ==
    call.fn = "containsRange" =>
        /\ asserted
        /\ This = call.before
        /\ returnval <=>
              \/ call.x >= call.y
              \/ /\ call.y <= ValueLimit
                 /\ \A v \in EdgeValues :
                       (call.x <= v /\ v < call.y) => v \in Members(roaring)
                 /\ call.y - call.x
                        = Cardinality({v \in EdgeValues : call.x <= v /\ v < call.y})

(***************************************************************************)
(* Properties of the assignments and moves.                                *)
(***************************************************************************)
\* the source of the last step before it, and the source and destination now
SourceBefore == call.before[call.r]
SourceNow == roars[call.r]
DestNow == roars[call.out]

(* C24.  After a move construction or a move assignment from another       *)
(* object the destination holds what the source held, and nothing of what  *)
(* it held itself; the source is empty: its cardinality is 0, isEmpty is   *)
(* true, it matches its reference set, and an add to it gives the bitmap   *)
(* of that one value.                                                      *)
C24_MoveTransfers ==
    call.fn \in {"move_construct", "move_assign"} =>
        /\ asserted
        /\ DestNow = SourceBefore
        /\ Members(DestNow.roaring) = SourceBefore.check
        /\ cardinality(SourceNow) = [ans |-> 0, asserted |-> TRUE]
        /\ isEmpty(SourceNow) = [ans |-> TRUE, asserted |-> TRUE]
        /\ does_std_set_match_roaring(SourceNow).ans
        /\ \A x \in PoolWindow :
              LET added == add(SourceNow, x)
              IN  /\ Members(added.roaring) = {x}
                  /\ does_std_set_match_roaring(added).ans

C24_Witness ==
    /\ call.fn = "move_assign"
    /\ Len(SourceBefore.roaring) = 2
    /\ call.before[call.out].check # {}
    /\ call.before[call.out].check \cap SourceBefore.check = {}
    /\ SourceNow.check = {}

(* C26.  After a = a by the copy assignment the bitmap holds the set it    *)
(* held before, and matches its reference set.                             *)
C26_SelfAssignKeeps ==
    (call.fn = "copy_assign" /\ call.out = call.r) =>
        /\ Members(DestNow.roaring) = Members(SourceBefore.roaring)
        /\ DestNow.check = SourceBefore.check
        /\ does_std_set_match_roaring(DestNow).ans

(***************************************************************************)
(* Properties of the lazy cardinality.                                     *)
(***************************************************************************)
\* c is a bitset whose cached cardinality is the number of its bits
KnownBitset(c) == c.kind = "bitset" /\ c.cardinality = TrueCard(c)

(* C25.  Whenever the in-place xor, which reads the cached cardinality of  *)
(* a bitset, is entered on a slot tagged as a bitset, the slot holds a     *)
(* bitset whose cardinality is known, and so does its other operand when   *)
(* that is a bitset; what it leaves in the slot is the symmetric           *)
(* difference, with its true cardinality cached, in an array when that is  *)
(* at most 4096 and never in a bitset then.                                *)
C25_LazyDiscipline ==
    call.fn = "container_ixor" =>
        /\ call.type1 = BITSET_CONTAINER_TYPE => KnownBitset(call.c1)
        /\ call.c2.kind = "bitset" => KnownBitset(call.c2)
        /\ ~ub
        /\ Offsets(c1) = SymDiff(Offsets(call.c1), Offsets(call.c2))
        /\ c1.kind # "run" => c1.cardinality = TrueCard(c1)
        /\ c1.kind = "bitset" => TrueCard(c1) > DEFAULT_MAX_SIZE
        /\ c1.kind = "array" => TrueCard(c1) <= DEFAULT_MAX_SIZE

(***************************************************************************)
(* Properties of the ownership.                                            *)
(***************************************************************************)
\* the memory as the last call left it
Left_by_call == Replay(call.events, 1, Entered("src_1", "src_2"))

(* C27.  In every xor and ixor function, on every branch, no container is  *)
(* freed twice or touched after it was freed; every container allocated in *)
(* the call is the one returned or left in the slot, or was freed; what is *)
(* returned or left in the slot is live; a xor frees neither argument; an  *)
(* ixor never frees its second operand and frees what the slot held when,  *)
(* and only when, the slot holds another container on return.              *)
C27_Ownership ==
    call.fn \in XorFunctions \cup IxorFunctions
                    \cup {"array_array_container_lazy_xor"} =>
        LET m == Left_by_call
        IN  /\ ~m.fault
            /\ call.ans \in m.live
            /\ m.made \cap m.live \subseteq {call.ans}
            /\ "src_2" \in m.live
            /\ call.fn \notin IxorFunctions =>
                  "src_1" \in m.live /\ call.ans \in m.made
            /\ call.fn \in IxorFunctions =>
                  ("src_1" \in m.freed <=> call.ans # "src_1")

\* array_run_container_ixor through the array branch: temp, and the old
\* array of the slot, are freed
C27_Witness ==
    /\ call.fn = "array_run_container_ixor"
    /\ Left_by_call.freed = {"array_run_container_xor.temp", "src_1"}
    /\ call.ans = "array_array_container_xor.new_ac"
    /\ Len(call.events) > 6

(* C28.  A non-lazy xor writes into neither of its two arguments, and an   *)
(* ixor does not write into its second operand: what a call writes into is *)
(* a container it allocated, or, in an ixor, the container of the slot.    *)
C28_Frame ==
    call.fn \in XorFunctions \cup IxorFunctions =>
        LET m == Left_by_call
        IN  /\ "src_2" \notin m.written
            /\ "src_2" \notin m.freed
            /\ call.fn \in XorFunctions =>
                  "src_1" \notin m.written /\ "src_1" \notin m.freed
            /\ m.written \subseteq m.made \cup {"src_1"}

\* bitset_array_container_ixor that kept the bitset: the slot's container
\* was written in place, and nothing else
C28_Witness ==
    /\ call.fn = "bitset_array_container_ixor"
    /\ call.ans = "src_1"
    /\ Left_by_call.written = {"src_1"}
    /\ call.src_2.cardinality > 0

\* src_1 of the last call has a run that ends at the last offset of the chunk
EndsAtLast(rc) ==
    \E i \in 1..rc.n_runs : rc.runs[i].value + rc.runs[i].length = ChunkSize - 1

(* C29.  When src_1 of run_bitset_container_xor or of                      *)
(* run_bitset_container_lazy_xor has a run that ends at offset 65535, the  *)
(* full run (0, 65535) included, every bit of that run is flipped, up to   *)
(* 65535, and no bit outside the runs is: the result has a bit exactly     *)
(* where src_2 has it outside the runs of src_1, or lacks it inside them.  *)
C29_EndOfRange ==
    (call.fn \in {"run_bitset_container_xor", "run_bitset_container_lazy_xor"}
        /\ EndsAtLast(call.src_1)) =>
        \A b \in Blocks :
            b \in Offsets(ans) <=>
                IF \E i \in 1..call.src_1.n_runs :
                       /\ call.src_1.runs[i].value <= BlockLo(b)
                       /\ BlockHi(b) <= call.src_1.runs[i].value
                                            + call.src_1.runs[i].length
                    THEN b \notin call.src_2.words
                    ELSE b \in call.src_2.words

\* the full run against a bitset that holds the last offsets and not all
C29_Witness ==
    /\ call.fn = "run_bitset_container_lazy_xor"
    /\ call.src_1.runs = <<rle16(0, ChunkSize - 1)>>
    /\ NumBlocks \in call.src_2.words
    /\ Offsets(ans) = Blocks \ call.src_2.words
    /\ Offsets(ans) # {}

(***************************************************************************)
(* Properties of the merge of an array with a run container.               *)
(***************************************************************************)
(* C30.  array_run_container_lazy_xor passes every offset of the array, as *)
(* a run of length 0, and every run to the exclusive append, in an order   *)
(* in which no start is below the one before it and a run comes before an  *)
(* array offset of the same start; dst is then a run container with its    *)
(* runs in strictly ascending order, none touching or overlapping the      *)
(* next, that holds the offsets in exactly one of src_1 and src_2, and at  *)
(* no point of the merge has it more runs than src_1->cardinality +        *)
(* src_2->n_runs.                                                          *)
C30_MergeOrder ==
    call.fn = "array_run_container_lazy_xor" =>
        LET fed == call.fed
            merged == fed_into([call.dst EXCEPT !.n_runs = 0, !.runs = <<>>],
                               0, fed, 1)
        IN  /\ Len(fed) = call.src_1.cardinality + call.src_2.n_runs
            /\ \A i \in 1..(Len(fed) - 1) :
                  /\ fed[i].start <= fed[i + 1].start
                  /\ (fed[i].start = fed[i + 1].start
                         /\ fed[i].from # fed[i + 1].from) =>
                        fed[i].from = "runs"
            /\ ans = merged.dst
            /\ RunInvariant(ans)
            /\ RunAligned(ans)
            /\ Offsets(ans) = SymDiff(Offsets(call.src_1), Offsets(call.src_2))
            /\ merged.most <= call.src_1.cardinality + call.src_2.n_runs

\* an array offset that is the start of a run, and offsets inside a run
C30_Witness ==
    /\ call.fn = "array_run_container_lazy_xor"
    /\ \E i \in 1..(Len(call.fed) - 1) :
          /\ call.fed[i].start = call.fed[i + 1].start
          /\ call.fed[i].from = "runs"
          /\ call.fed[i + 1].from = "array"
    /\ call.src_1.cardinality = arbitrary_threshold
    /\ ans.n_runs >= 2
    /\ call.dst.n_runs = 1

=============================================================================
